---- MODULE Spec2Model ----
(***************************************************************************)
(* A model of the LinkedIn automation server of src/index.js: the session  *)
(* object (LinkedInAutomation), its operations login, searchJobs,          *)
(* getJobDetails and cleanup, and the tool-call handler that dispatches to *)
(* them.  The browser, the site and the rendered documents are the         *)
(* environment: every value the code reads from them is drawn from a       *)
(* small set, every call that can reject may reject.                       *)
(*                                                                         *)
(* An operation is a chain of awaits.  The model follows one call at a     *)
(* time: call.pc is the await the call in flight is suspended at, and one  *)
(* action runs the code from one suspension to the next.                   *)
(***************************************************************************)
EXTENDS Integers, Sequences, FiniteSets, TLC

(***************************************************************************)
(* Bounds of the model.                                                    *)
(***************************************************************************)
\* how many characters past a truncation limit the longest text reaches
MaxOver == 4
\* how many listing elements past the result limit a result page holds
MaxExtraCards == 2

(***************************************************************************)
(* Constants of the program.                                               *)
(***************************************************************************)
MaxJobs == 25
MaxDescription == 5000
MaxCompanyDescription == 1000

(***************************************************************************)
(* Strings whose length or content the code computes with are kept         *)
(* run-length encoded: a text is a sequence of runs [ch, n], n characters  *)
(* ch each, no run empty and no two neighbours of the same character.      *)
(* undefined/null is the one value with an empty run.                      *)
(***************************************************************************)
Run(c, k) == [ch |-> c, n |-> k]

Str(c, k) == IF k <= 0 THEN <<>> ELSE <<Run(c, k)>>

Undefined == <<Run("undefined", 0)>>

\* JavaScript truthiness of a string-or-undefined value
Truthy(t) == t # Undefined /\ t # <<>>

RECURSIVE Length(_)
Length(t) == IF t = <<>> THEN 0 ELSE Head(t).n + Length(Tail(t))

\* a + b
Concat(a, b) ==
  IF a = <<>> THEN b
  ELSE IF b = <<>> THEN a
  ELSE IF a[Len(a)].ch = b[1].ch
       THEN SubSeq(a, 1, Len(a) - 1)
              \o <<Run(b[1].ch, a[Len(a)].n + b[1].n)>>
              \o Tail(b)
       ELSE a \o b

\* t.substring(0, k)
RECURSIVE Substring(_, _)
Substring(t, k) ==
  IF t = <<>> \/ k <= 0 THEN <<>>
  ELSE IF Head(t).n >= k THEN <<Run(Head(t).ch, k)>>
  ELSE <<Head(t)>> \o Substring(Tail(t), k - Head(t).n)

\* t.trim(): white space is the character " "
Trim(t) ==
  LET a == IF t # <<>> /\ Head(t).ch = " " THEN Tail(t) ELSE t
  IN  IF a # <<>> /\ a[Len(a)].ch = " " THEN SubSeq(a, 1, Len(a) - 1) ELSE a

Ellipsis == Str(".", 3)

NA == <<Run("N", 1), Run("/", 1), Run("A", 1)>>

(***************************************************************************)
(* A URL is the set of the patterns the code tests it for that occur in    *)
(* it: url.includes(p) is p \in url.                                       *)
(***************************************************************************)
Patterns == {"checkpoint", "challenge", "/feed/", "/mynetwork/", "/home", "/login"}

Includes(url, p) == p \in url

Blank == {"about:blank"}

FeedUrl == {"/feed/"}

LoginUrl == {"/login"}

SearchUrl == {"/jobs/search/"}

JobUrl == {"/jobs/view/"}

\* the URLs the site may leave the page at after the form is submitted: none
\* of the patterns, each pattern alone, and the pairs in which two branches
\* of the classification compete
PostUrls ==
  {{}} \cup {{p} : p \in Patterns}
  \cup {{"checkpoint", "/feed/"}, {"challenge", "/home"},
         {"checkpoint", "/login"}, {"/mynetwork/", "/login"}}

NoUrl == {"none"}

(***************************************************************************)
(* State.  The session object: browser, page, randomDelay, isLoggedIn.     *)
(* Around it: the cookie file on disk, whether the site accepts the        *)
(* browser profile's session, the page's URL.                              *)
(* call is the frame of the call in flight (or of the last one, once       *)
(* call.pc = "idle"): its locals, what it did to the browser so far        *)
(* (calls), the faults raised in it, whether caught inside the operation   *)
(* or not (faults), and the session object as the call found it (before).  *)
(* reply is the reply the handler gave to the last call.                   *)
(* threads is used where calls overlap (SpecOverlap): where each of the    *)
(* overlapping calls stands inside initialize(), and how many browsers and *)
(* pages have been created so far.  Where one call runs at a time (Spec)   *)
(* it stays as it is.                                                      *)
(***************************************************************************)
VARIABLES browser, page, randomDelay, isLoggedIn,
          cookieFile, siteAuth, pageUrl,
          call, reply, threads

vars == <<browser, page, randomDelay, isLoggedIn,
          cookieFile, siteAuth, pageUrl, call, reply, threads>>

session == <<browser, page, randomDelay, isLoggedIn>>

\* a request without an arguments object; an environment without credentials
NoArgs == [present |-> FALSE, email |-> "undefined", password |-> "undefined"]

NoEnv == [email |-> "undefined", password |-> "undefined"]

(***************************************************************************)
(* The body of a job-posting API response, as response.json() gives it:    *)
(* a data section (or none) and an included collection (or none).  A field *)
(* that is absent is Undefined; applies, listedAt and followerCount are    *)
(* numbers, 0 when absent.                                                 *)
(***************************************************************************)
NoData ==
  [title |-> Undefined, formattedLocation |-> Undefined, description |-> Undefined,
   workRemoteAllowed |-> FALSE, formattedEmploymentStatus |-> Undefined,
   formattedExperienceLevel |-> Undefined, applies |-> 0, listedAt |-> 0]

\* apiResponse = null
NoResponse ==
  [captured |-> FALSE, hasData |-> FALSE, data |-> NoData,
   hasIncluded |-> FALSE, included |-> <<>>]

\* the record getJobDetails returns under "details"
NoDetails ==
  [title |-> Undefined, company |-> Undefined, location |-> Undefined,
   metadata |-> <<>>, workplaceType |-> <<>>, description |-> Undefined,
   experienceLevel |-> Undefined, applicants |-> 0, postedAt |-> Undefined,
   companyInfo |-> [size |-> Undefined, followers |-> Undefined,
                    industry |-> Undefined, description |-> Undefined]]

\* no document was evaluated
NoDoc == [kind |-> "none"]

NoCall ==
  [op |-> "none", pc |-> "idle", invoked |-> FALSE, args |-> NoArgs, env |-> NoEnv,
   email |-> "undefined", password |-> "undefined",
   calls |-> <<>>, landing |-> NoUrl, probe |-> NoUrl, postUrl |-> NoUrl,
   errorEl |-> FALSE,
   afterCheckpoint |-> FALSE, resolved |-> FALSE, loginOk |-> FALSE,
   doc |-> NoDoc,
   jobId |-> <<>>, apiResponse |-> NoResponse, capturedId |-> <<>>,
   before |-> <<"null", "null", "undefined", FALSE>>,
   faults |-> {}]

NoReply ==
  [op |-> "none", shape |-> "none", success |-> FALSE, message |-> "",
   needsManualVerification |-> FALSE, currentUrl |-> NoUrl,
   jobs |-> <<>>, totalFound |-> 0, searchUrl |-> <<>>, details |-> NoDetails]

\* a call of operation o enters the handler
Enter(o) ==
  [NoCall EXCEPT !.op = o,
                 !.before = session,
                 !.afterCheckpoint = (call.afterCheckpoint
                                        \/ reply.needsManualVerification),
                 \* the user resolved a checkpoint by hand and no login has
                 \* succeeded since
                 !.resolved = (call.resolved
                                 /\ ~(reply.op = "login" /\ reply.success)),
                 \* a login returned success=true and cleanup was not
                 \* called since
                 !.loginOk = IF reply.op = "login" /\ reply.shape = "envelope"
                                /\ reply.success THEN TRUE
                             ELSE IF reply.op = "cleanup" THEN FALSE
                             ELSE call.loginOk]

\* JSON.stringify(result): {success, message, ...}
Envelope(o, ok, msg) ==
  [NoReply EXCEPT !.op = o, !.shape = "envelope", !.success = ok, !.message = msg]

\* the handler's catch: {error: error.message}, isError
ErrorReply(o, msg) ==
  [NoReply EXCEPT !.op = o, !.shape = "error", !.message = msg]

Idle == call.pc = "idle"

At(o, p) == call.op = o /\ call.pc = p

Returns(r) == /\ reply' = r
              /\ call' = [call EXCEPT !.pc = "idle"]

Did(c) == Append(call.calls, c)

(***************************************************************************)
(* Overlapping calls.  The handler is async and the server does not wait   *)
(* for one request's reply before it dispatches the next: a second call    *)
(* can enter initialize() while the first is suspended at one of its       *)
(* awaits, and a command can start while another is suspended at a         *)
(* navigation.  Each of the overlapping requests has its position (pc),    *)
(* the command it runs (op) and the number of commands it has made (made). *)
(* launched and pages count the browsers and pages created; faulted is     *)
(* set once an awaited call rejected; cleaned once cleanup was called, and *)
(* during once it was called while another command was in flight.          *)
(***************************************************************************)
\* how many calls overlap
MaxOverlap == 2
\* how many commands each of them makes
MaxInitCalls == 2

Procs == 1 .. MaxOverlap

\* no randomDelay() promise was made yet
NoTimer ==
  [state |-> "none", args |-> <<<<>>, <<>>>>,
   min |-> 0, max |-> 0, d |-> 0, elapsed |-> 0, resolved |-> 0,
   before |-> <<>>]

NoThreads ==
  [pc |-> [p \in Procs |-> "idle"], made |-> [p \in Procs |-> 0],
   op |-> [p \in Procs |-> "none"],
   launched |-> 0, pages |-> 0, faulted |-> FALSE,
   cleaned |-> FALSE, during |-> FALSE,
   \* the browsers by the order of their launch, the pages by the order of
   \* their creation, 0 for none: the browser this.browser refers to, the
   \* browsers that were closed, the browser of this.page and its number
   cur |-> 0, closed |-> {}, pageOn |-> 0, pageNo |-> 0,
   \* per request: the browser its newPage() was called on, the browser its
   \* close() was called on, the page it installed its observers on
   own |-> [p \in Procs |-> 0], target |-> [p \in Procs |-> 0],
   watch |-> [p \in Procs |-> 0],
   \* the pairs of request/response observers on this.page, and whether
   \* request interception is enabled on it
   observers |-> 0, intercepting |-> FALSE,
   timer |-> NoTimer]

(***************************************************************************)
(* constructor                                                             *)
(***************************************************************************)
Init ==
  /\ browser = "null"
  /\ page = "null"
  /\ randomDelay = "undefined"
  /\ isLoggedIn = FALSE
  /\ cookieFile \in {"absent", "anon", "auth", "partial"}
  /\ siteAuth \in BOOLEAN
  /\ pageUrl = Blank
  /\ call = NoCall
  /\ reply = NoReply
  /\ threads = NoThreads

(***************************************************************************)
(* initialize(), run to its end or to the call that rejects.  fault names   *)
(* the call that rejects: the launch, the page creation, the header setup; *)
(* or, inside loadCookies, the read of the file or page.setCookie.         *)
(* loadCookies catches its own faults.  The cookie file is absent, holds   *)
(* the tokens of an anonymous or of an authenticated session, or holds a   *)
(* cut-off token set ("partial"), which JSON.parse rejects.                *)
(***************************************************************************)
InitFaults == {"none", "launch", "newPage", "headers", "read", "setCookie"}

\* the faults loadCookies catches
LoadFaults == {"read", "cookieParse", "setCookie"}

\* loadCookies: the tokens of the cookie file are set on the page
LoadCookies(auth) == auth \/ cookieFile = "auth"

\* the fault raised inside loadCookies, if any: nothing is read when the file
\* is absent, a partial file fails to parse once it was read
LoadFault(fault) ==
  IF cookieFile = "absent" THEN {}
  ELSE IF fault = "read" THEN {"read"}
  ELSE IF cookieFile = "partial" THEN {"cookieParse"}
  ELSE IF fault = "setCookie" THEN {"setCookie"}
  ELSE {}

\* a loadCookies whose faults do not stop the tokens from being applied
loadCookiesAnyway(auth, fault) == LoadCookies(auth)

\* loadCookies with its try/catch: a fault leaves the page without the tokens
loadCookies(auth, fault) ==
  IF LoadFault(fault) # {} THEN auth ELSE LoadCookies(auth)

initialize(fault) ==
  IF browser # "null"
  THEN [ok |-> TRUE, browser |-> browser, page |-> page,
        randomDelay |-> randomDelay, siteAuth |-> siteAuth, calls |-> call.calls,
        faults |-> {}]
  ELSE CASE fault = "launch" ->
              [ok |-> FALSE, browser |-> "null", page |-> page,
               randomDelay |-> randomDelay, siteAuth |-> siteAuth,
               calls |-> Did("launch"), faults |-> {"launch"}]
         [] fault = "newPage" ->
              [ok |-> FALSE, browser |-> "browser", page |-> page,
               randomDelay |-> randomDelay, siteAuth |-> siteAuth,
               calls |-> Did("launch"), faults |-> {"newPage"}]
         [] fault = "headers" ->
              [ok |-> FALSE, browser |-> "browser", page |-> "page",
               randomDelay |-> randomDelay, siteAuth |-> siteAuth,
               calls |-> Did("launch"), faults |-> {"headers"}]
         [] OTHER ->
              [ok |-> TRUE, browser |-> "browser", page |-> "page",
               randomDelay |-> "function", siteAuth |-> loadCookies(siteAuth, fault),
               calls |-> Did("launch"), faults |-> LoadFault(fault)]

(***************************************************************************)
(* The tool-call handler, case "linkedin_login": the credentials come from *)
(* the arguments or else from the environment; without both the handler    *)
(* replies at once.  A request without an arguments object makes           *)
(* args.email throw, which the handler's catch turns into an error reply.  *)
(***************************************************************************)
LoginArgs ==
  {NoArgs,
   [present |-> TRUE, email |-> "undefined", password |-> "undefined"],
   [present |-> TRUE, email |-> "", password |-> "undefined"],
   [present |-> TRUE, email |-> "arg-email", password |-> "undefined"],
   [present |-> TRUE, email |-> "arg-email", password |-> "arg-password"]}

\* process.env.LINKEDIN_EMAIL, process.env.LINKEDIN_PASSWORD, read by the call
ProcessEnvs ==
  {NoEnv,
   [email |-> "env-email", password |-> "undefined"],
   [email |-> "env-email", password |-> "env-password"]}

\* the login requests: each way the two credentials can be resolved, once.
\* No arguments object; nothing anywhere; the identifier alone; both from the
\* arguments, with and without an environment behind them; both from the
\* environment, the identifier argument being empty; one from each
LoginRequests ==
  {r \in [args : LoginArgs, env : ProcessEnvs] :
     \/ ~r.args.present /\ r.env = NoEnv
     \/ r.args.email = "undefined" /\ r.env = NoEnv
     \/ r.args.email = "arg-email" /\ r.args.password = "undefined"
        /\ r.env.password = "undefined" /\ r.env.email = "env-email"
     \/ r.args.password = "arg-password" /\ r.env.email = "undefined"
     \/ r.args.password = "arg-password" /\ r.env.password = "env-password"
     \/ r.args.present /\ r.args.email = "" /\ r.env.password = "env-password"
     \/ r.args.email = "arg-email" /\ r.args.password = "undefined"
        /\ r.env.password = "env-password"}

\* a || b on strings
Credential(arg, env) == IF arg \notin {"undefined", ""} THEN arg ELSE env

\* !email || !password
MissingCredentials(email, password) ==
  email \in {"undefined", ""} \/ password \in {"undefined", ""}

CallLogin(args, env) ==
  /\ Idle
  /\ UNCHANGED threads
  /\ UNCHANGED <<session, cookieFile, siteAuth, pageUrl>>
  /\ IF ~args.present
     THEN /\ reply' = ErrorReply("login", "Cannot read properties of undefined")
          /\ call' = [Enter("login") EXCEPT !.args = args, !.env = env]
     ELSE LET email == Credential(args.email, env.email)
              password == Credential(args.password, env.password)
          IN  IF MissingCredentials(email, password)
              THEN /\ reply' = Envelope("login", FALSE, "Email and password required")
                   /\ call' = [Enter("login") EXCEPT !.args = args, !.env = env]
              ELSE /\ reply' = NoReply
                   /\ call' = [Enter("login") EXCEPT !.pc = "initialize",
                                                     !.invoked = TRUE,
                                                     !.args = args, !.env = env,
                                                     !.email = email,
                                                     !.password = password]

(***************************************************************************)
(* login(email, password)                                                  *)
(***************************************************************************)
\* a login whose fault escapes to the handler
LoginRejects == ErrorReply("login", "Login error")

\* login's catch: {success: false, message: `Login error: ...`}
LoginError == Envelope("login", FALSE, "Login error")

\* await this.initialize()
LoginInitialize ==
  /\ At("login", "initialize")
  /\ UNCHANGED threads
  /\ \E fault \in InitFaults :
       LET r == initialize(fault)
       IN  /\ browser' = r.browser
           /\ page' = r.page
           /\ randomDelay' = r.randomDelay
           /\ siteAuth' = r.siteAuth
           /\ IF r.ok
              THEN /\ call' = [call EXCEPT !.pc = "probe", !.calls = r.calls,
                                            !.faults = r.faults]
                   /\ reply' = reply
              ELSE /\ call' = [call EXCEPT !.pc = "idle", !.calls = r.calls,
                                            !.faults = r.faults]
                   /\ reply' = LoginError
  /\ UNCHANGED <<isLoggedIn, cookieFile, pageUrl>>

\* where the site leaves a navigation to the landing page
Landing == IF siteAuth THEN {FeedUrl} ELSE {LoginUrl, {"checkpoint"}}

\* a session check that never recognises the landing page
NeverRestored(url) == FALSE

\* this.page.url().includes("/feed/")
SessionRestored(url) == Includes(url, "/feed/")

\* the session check: go to the landing page, look at the URL
LoginProbe ==
  /\ At("login", "probe")
  /\ UNCHANGED threads
  /\ UNCHANGED <<browser, page, randomDelay, cookieFile, siteAuth>>
  /\ IF page = "null"
     THEN \* this.page.goto throws, the inner catch swallows it
          /\ call' = [call EXCEPT !.pc = "form"]
          /\ UNCHANGED <<isLoggedIn, pageUrl, reply>>
     ELSE \/ \* the navigation rejects, the inner catch swallows it
             /\ call' = [call EXCEPT !.pc = "form", !.calls = Did("goto_feed")]
             /\ UNCHANGED <<isLoggedIn, pageUrl, reply>>
          \/ \E url \in Landing :
               /\ pageUrl' = url
               /\ IF randomDelay = "undefined"
                  THEN \* this.randomDelay is not a function: the inner catch
                       /\ call' = [call EXCEPT !.pc = "form", !.landing = url,
                                               !.calls = Did("goto_feed")]
                       /\ UNCHANGED <<isLoggedIn, reply>>
                  ELSE IF SessionRestored(url)
                  THEN /\ isLoggedIn' = TRUE
                       /\ call' = [call EXCEPT !.pc = "idle", !.landing = url,
                                               !.probe = url,
                                               !.calls = Did("goto_feed")]
                       /\ reply' = Envelope("login", TRUE,
                                            "Already logged in (session restored)")
                  ELSE /\ call' = [call EXCEPT !.pc = "form", !.landing = url,
                                               !.probe = url,
                                               !.calls = Did("goto_feed")]
                       /\ UNCHANGED <<isLoggedIn, reply>>

\* how far the credential form gets: the navigation rejects, #username never
\* appears, typing rejects, there is no submit button, or the form is sent
FormOutcomes == {"navigation", "noForm", "typing", "noButton", "submitted"}

\* a form that is sent again when it was sent
FormCallsRetry(out) ==
  IF out = "submitted"
  THEN <<"goto_login", "type_username", "type_password", "click_submit",
         "goto_login", "type_username", "type_password", "click_submit">>
  ELSE <<"goto_login">>

FormCalls(out) ==
  CASE out = "navigation" -> <<"goto_login">>
    [] out = "noForm"     -> <<"goto_login">>
    [] out = "typing"     -> <<"goto_login", "type_username">>
    [] out = "noButton"   -> <<"goto_login", "type_username", "type_password">>
    [] OTHER -> <<"goto_login", "type_username", "type_password", "click_submit">>

LoginForm ==
  /\ At("login", "form")
  /\ UNCHANGED threads
  /\ UNCHANGED <<session, cookieFile, siteAuth>>
  /\ IF page = "null"
     THEN /\ reply' = LoginError
          /\ call' = [call EXCEPT !.pc = "idle",
                                  !.faults = call.faults \cup {"TypeError"}]
          /\ UNCHANGED pageUrl
     ELSE \E out \in FormOutcomes :
            /\ pageUrl' = IF out = "navigation" THEN pageUrl ELSE LoginUrl
            /\ IF out = "navigation"
               THEN /\ reply' = LoginError
                    /\ call' = [call EXCEPT !.pc = "idle",
                                            !.calls = call.calls \o FormCalls(out),
                                            !.faults = call.faults \cup {out}]
               ELSE IF randomDelay = "undefined"
               THEN /\ reply' = LoginError
                    /\ call' = [call EXCEPT !.pc = "idle",
                                            !.calls = Did("goto_login"),
                                            !.faults = call.faults \cup {"TypeError"}]
               ELSE IF out = "submitted"
               THEN /\ reply' = reply
                    /\ call' = [call EXCEPT !.pc = "submitted",
                                            !.calls = call.calls \o FormCalls(out)]
               ELSE /\ reply' = LoginError
                    /\ call' = [call EXCEPT !.pc = "idle",
                                            !.calls = call.calls \o FormCalls(out),
                                            !.faults = call.faults \cup {out}]

(***************************************************************************)
(* After the submit: the race of waits is caught whatever it does, then    *)
(* the URL decides, in this order.                                         *)
(***************************************************************************)
\* a classification that looks for the authenticated area first
ClassifyAuthenticatedFirst(url, errorEl) ==
  IF Includes(url, "/feed/") \/ Includes(url, "/mynetwork/")
     \/ Includes(url, "/home") THEN "authenticated"
  ELSE IF Includes(url, "checkpoint") \/ Includes(url, "challenge") THEN "checkpoint"
  ELSE IF errorEl THEN "rejected"
  ELSE IF Includes(url, "/login") THEN "stillOnLogin"
  ELSE "unverified"

Classify(url, errorEl) ==
  IF Includes(url, "checkpoint") \/ Includes(url, "challenge") THEN "checkpoint"
  ELSE IF Includes(url, "/feed/") \/ Includes(url, "/mynetwork/")
          \/ Includes(url, "/home") THEN "authenticated"
  ELSE IF errorEl THEN "rejected"
  ELSE IF Includes(url, "/login") THEN "stillOnLogin"
  ELSE "unverified"

\* whether the site has granted the session, given where it sent the page
Granted(url) ==
  IF url \cap {"checkpoint", "challenge", "/login"} # {} THEN {FALSE}
  ELSE IF url \cap {"/feed/", "/mynetwork/", "/home"} # {} THEN {TRUE}
  ELSE BOOLEAN

\* how saveCookies ends: the file is written; page.cookies() or the opening
\* of the file rejects and the file stays as it was; or writeFile, which
\* truncates the file and then writes it piece by piece, is cut short
SaveOutcomes == {"written", "failed", "cut"}

\* a save that writes aside and renames: cut short, it leaves the old file
saveCookiesAtomic(auth, out) ==
  IF out = "written" THEN (IF auth THEN "auth" ELSE "anon") ELSE cookieFile

\* saveCookies: page.cookies() written to the cookie file; faults are caught
saveCookies(auth, out) ==
  CASE out = "written" -> IF auth THEN "auth" ELSE "anon"
    [] out = "failed" -> cookieFile
    [] OTHER -> "partial"

\* a login that saves the session whatever the branch
PersistsAlways(kind) == TRUE

\* the one branch that calls saveCookies
Persists(kind) == kind = "authenticated"

LoginResult(kind, url) ==
  CASE kind = "checkpoint" ->
         [Envelope("login", FALSE, "Security checkpoint detected")
            EXCEPT !.needsManualVerification = TRUE]
    [] kind = "authenticated" -> Envelope("login", TRUE, "Login successful")
    [] kind = "rejected" -> Envelope("login", FALSE, "Login failed")
    [] kind = "stillOnLogin" -> Envelope("login", FALSE, "Still on login page")
    [] OTHER -> [Envelope("login", TRUE, "Login process completed")
                   EXCEPT !.currentUrl = url]

\* how the race of the three waits and the 5 s timer settles: one of the
\* waits resolves, the timer resolves, or one of the waits rejects first
RaceOutcomes == {"resolved", "timer", "rejected"}

\* a race whose rejection is not caught
AfterRaceUncaught(race) == IF race = "rejected" THEN "throw" ELSE "classify"

\* Promise.race([...]).catch(() => ...): whatever the race does, go on
AfterRace(race) == "classify"

LoginClassify ==
  /\ At("login", "submitted")
  /\ UNCHANGED threads
  /\ UNCHANGED <<browser, page, randomDelay>>
  /\ \E url \in PostUrls, errorEl \in BOOLEAN, race \in RaceOutcomes :
     \E auth \in Granted(url),
        out \in (IF Persists(Classify(url, errorEl)) THEN SaveOutcomes
                 ELSE {"written"}) :
       LET kind == Classify(url, errorEl)
           raced == IF race = "rejected" THEN call.faults \cup {"race"}
                    ELSE call.faults
       IN  /\ pageUrl' = url
           /\ siteAuth' = (siteAuth \/ auth)
           /\ IF AfterRace(race) = "throw"
              THEN /\ reply' = LoginError
                   /\ call' = [call EXCEPT !.pc = "idle", !.faults = raced]
                   /\ UNCHANGED <<isLoggedIn, cookieFile>>
              ELSE /\ isLoggedIn' = IF kind = "authenticated" THEN TRUE
                                    ELSE isLoggedIn
                   /\ cookieFile' = IF Persists(kind)
                                    THEN saveCookies(siteAuth \/ auth, out)
                                    ELSE cookieFile
                   /\ reply' = LoginResult(kind, url)
                   /\ call' = [call EXCEPT
                                 !.pc = "idle",
                                 !.postUrl = url,
                                 !.errorEl = errorEl,
                                 !.faults = IF Persists(kind) /\ out # "written"
                                            THEN raced \cup {"save"}
                                            ELSE raced,
                                 !.calls = IF Persists(kind)
                                           THEN Did("saveCookies")
                                           ELSE call.calls]


(***************************************************************************)
(* A search result page, as the extraction sees it: the list items that    *)
(* carry data-occludable-job-id, in document order, and whether the legacy *)
(* container .jobs-search-results-list is there.  A card has its link      *)
(* a.job-card-container__link or not, the link has its <strong> title or   *)
(* not; company, location and time are there or not.                       *)
(***************************************************************************)
CardKinds == {"full", "bare", "noLink", "noTitle"}

Card(i, kind) ==
  [jobId |-> i,
   link |-> kind # "noLink",
   strong |-> kind \in {"full", "bare"},
   extras |-> kind = "full"]

CardCounts == (0 .. 3) \cup ((MaxJobs - 1) .. (MaxJobs + MaxExtraCards))

\* n cards, all full but the first (k1) and the second (k2)
ResultPage(n, k1, k2, legacy) ==
  [kind |-> "results",
   cards |-> [i \in 1 .. n |-> Card(i, IF i = 1 THEN k1
                                       ELSE IF i = 2 THEN k2 ELSE "full")],
   legacy |-> legacy]

SearchDocs ==
  {ResultPage(n, k1, k2, FALSE) :
     n \in CardCounts, k1 \in CardKinds, k2 \in {"full", "noLink", "noTitle"}}
  \cup {ResultPage(0, "full", "full", TRUE)}

\* card.querySelector("a.job-card-container__link")
linkEl(card) == card.link

\* linkEl ? linkEl.querySelector("strong") : null
titleEl(card) == linkEl(card) /\ card.strong

Listing(card) ==
  [title |-> <<"title", card.jobId>>,
   company |-> IF card.extras THEN <<"company", card.jobId>> ELSE <<"N/A">>,
   location |-> IF card.extras THEN <<"location", card.jobId>> ELSE <<"N/A">>,
   link |-> <<"href", card.jobId>>,
   postedTime |-> IF card.extras THEN <<"datetime", card.jobId>> ELSE <<"N/A">>,
   jobId |-> card.jobId]

\* an extraction that pushes every card, whatever it lacks
ExtractAll(cards) == [i \in DOMAIN cards |-> Listing(cards[i])]

\* an extraction that puts each listing before the ones found so far
RECURSIVE ExtractReversed(_)
ExtractReversed(cards) ==
  IF cards = <<>> THEN <<>>
  ELSE ExtractReversed(Tail(cards))
       \o (IF titleEl(Head(cards)) /\ linkEl(Head(cards))
           THEN <<Listing(Head(cards))>> ELSE <<>>)

\* jobCards.forEach: if (titleEl && linkEl) results.push(...)
RECURSIVE ExtractJobs(_)
ExtractJobs(cards) ==
  IF cards = <<>> THEN <<>>
  ELSE (IF titleEl(Head(cards)) /\ linkEl(Head(cards))
        THEN <<Listing(Head(cards))>> ELSE <<>>)
       \o ExtractJobs(Tail(cards))

\* a slice that keeps everything
SliceAll(jobs, k) == jobs

\* jobs.slice(0, 25)
Slice(jobs, k) == SubSeq(jobs, 1, IF Len(jobs) < k THEN Len(jobs) ELSE k)

\* a wait that knows the primary marker only
PrimaryAppears(doc) == Len(doc.cards) > 0

\* one of the two result markers appears before the waits time out
MarkerAppears(doc) == Len(doc.cards) > 0 \/ doc.legacy

\* a result whose totalFound counts the jobs returned, not the jobs found
SearchResultCountingReturned(doc, url) ==
  LET jobs == SubSeq(ExtractJobs(doc.cards), 1,
                     IF Len(ExtractJobs(doc.cards)) < MaxJobs
                     THEN Len(ExtractJobs(doc.cards)) ELSE MaxJobs)
  IN  [Envelope("search", TRUE, "") EXCEPT
         !.jobs = jobs, !.searchUrl = url, !.totalFound = Len(jobs)]

SearchResult(doc, url) ==
  LET jobs == ExtractJobs(doc.cards)
  IN  [Envelope("search", TRUE, "") EXCEPT
         !.jobs = Slice(jobs, MaxJobs),
         !.searchUrl = url,
         !.totalFound = Len(jobs)]

(***************************************************************************)
(* The handler, case "linkedin_search_jobs", and searchJobs up to its      *)
(* first navigation.                                                       *)
(***************************************************************************)
SearchArgs ==
  {[present |-> FALSE, location |-> "", remote |-> FALSE],
   [present |-> TRUE, location |-> "", remote |-> FALSE],
   [present |-> TRUE, location |-> "Remote", remote |-> TRUE]}

\* the parameters appended to the search URL
SearchParams(args) ==
  <<"keywords">>
  \o (IF args.location # "" THEN <<"location">> ELSE <<>>)
  \o (IF args.remote THEN <<"f_WT">> ELSE <<>>)

NotLoggedIn == Envelope("search", FALSE, "Not logged in. Please log in first.")

\* a guard that lets every search through
GuardOff == FALSE

\* !this.isLoggedIn
NotAuthenticated == ~isLoggedIn

CallSearch(args) ==
  /\ Idle
  /\ UNCHANGED threads
  /\ UNCHANGED <<session, cookieFile, siteAuth, pageUrl>>
  /\ IF ~args.present
     THEN /\ reply' = ErrorReply("search", "Cannot read properties of undefined")
          /\ call' = Enter("search")
     ELSE IF NotAuthenticated
     THEN /\ reply' = NotLoggedIn
          /\ call' = [Enter("search") EXCEPT !.invoked = TRUE]
     ELSE /\ reply' = [NoReply EXCEPT !.searchUrl = SearchParams(args)]
          /\ call' = [Enter("search") EXCEPT !.pc = "navigate", !.invoked = TRUE]

SearchError == Envelope("search", FALSE, "Job search error")

\* the navigation, the wait for a marker, the scroll and the extraction
SearchExtract ==
  /\ At("search", "navigate")
  /\ UNCHANGED threads
  /\ UNCHANGED <<session, cookieFile, siteAuth>>
  /\ \/ \* page.goto rejects
        /\ UNCHANGED pageUrl
        /\ reply' = SearchError
        /\ call' = [call EXCEPT !.pc = "idle",
                                !.calls = IF page = "null" THEN call.calls
                                          ELSE Did("goto_search"),
                                !.faults = IF page = "null" THEN {"TypeError"}
                                           ELSE {"navigation"}]
     \/ \E doc \in SearchDocs :
          /\ page # "null" /\ randomDelay # "undefined"
          /\ pageUrl' = SearchUrl
          /\ call' = [call EXCEPT !.pc = "idle", !.calls = Did("goto_search"),
                                  !.doc = doc,
                                  !.faults = IF MarkerAppears(doc) THEN {}
                                             ELSE {"noForm"}]
          /\ reply' = IF MarkerAppears(doc)
                      THEN SearchResult(doc, reply.searchUrl)
                      ELSE SearchError
     \/ \* this.randomDelay is not a function, or a page.evaluate rejects
        /\ page # "null"
        /\ pageUrl' = SearchUrl
        /\ reply' = SearchError
        /\ call' = [call EXCEPT !.pc = "idle", !.calls = Did("goto_search"),
                                !.faults = IF randomDelay = "undefined"
                                           THEN {"TypeError"} ELSE {"evaluate"}]

(***************************************************************************)
(* getJobDetails: the texts it reads.                                      *)
(***************************************************************************)
\* a text of n characters, the last one unlike the others
Body(n) == Concat(Str("a", n - 1), Str("b", IF n > 0 THEN 1 ELSE 0))

\* t with white space around it
Padded(t) == Concat(Concat(Str(" ", 2), t), Str(" ", 1))

\* the lengths tried around a limit
LengthsAround(limit) == {0, 1} \cup ((limit - 1) .. (limit + MaxOver))

\* a text that was cut at the limit before
CutBefore(limit) == Concat(Str("a", limit), Ellipsis)

\* an || that never takes its right-hand side
OrLeft(x, y) == x

\* x || y
Or(x, y) == IF Truthy(x) THEN x ELSE y

\* a truncation without the marker
TruncateNoMarker(description, max) == Substring(description, max)

\* description.substring(0, max) + (description.length > max ? "..." : "")
Truncate(description, max) ==
  Concat(Substring(description, max),
         IF Length(description) > max THEN Ellipsis ELSE <<>>)

(***************************************************************************)
(* The intercepted response.  A response is captured when its URL holds    *)
(* the job-postings API path and the job id; its body is parsed, and a     *)
(* body that does not parse leaves apiResponse as it was.                  *)
(***************************************************************************)
JobIds == {<<1, 2>>, <<1, 2, 3>>}

\* jobUrl.match(/\/jobs\/view\/(\d+)/): the id, or <<>> for no match
JobUrls == JobIds \cup {<<>>}

\* url.includes(jobId), the URL being that of the posting `id`
IsSubstring(jobId, id) ==
  \E k \in 0 .. (Len(id) - Len(jobId)) : SubSeq(id, k + 1, k + Len(jobId)) = jobId

Title == Str("T", 17)

Location == Str("L", 10)

Company(description) ==
  [type |-> "Company", name |-> Str("C", 4), description |-> description,
   staffCountRange |-> TRUE, industries |-> <<Str("I", 8)>>, followerCount |-> 0]

FollowingInfo(count) ==
  [type |-> "FollowingInfo", name |-> Undefined, description |-> Undefined,
   staffCountRange |-> FALSE, industries |-> <<>>, followerCount |-> count]

Posting(title, location, description, remote, included) ==
  [captured |-> TRUE, hasData |-> TRUE,
   data |-> [NoData EXCEPT !.title = title, !.formattedLocation = location,
                           !.description = description,
                           !.workRemoteAllowed = remote],
   hasIncluded |-> included # <<>>, included |-> included]

\* a body without a data section
Dataless == [NoResponse EXCEPT !.captured = TRUE]

Payloads ==
  {Posting(t, l, Body(1), r, <<>>) :
     t \in {Undefined, Title}, l \in {Undefined, Location}, r \in BOOLEAN}
  \cup {Posting(Title, Location, d, FALSE, <<>>) :
     d \in {Undefined, CutBefore(MaxDescription)}
           \cup {Body(n) : n \in LengthsAround(MaxDescription)}}
  \cup {Posting(Title, Location, Body(1), FALSE, <<FollowingInfo(1500), Company(d)>>) :
     d \in {Undefined, CutBefore(MaxCompanyDescription)}
           \cup {Body(n) : n \in LengthsAround(MaxCompanyDescription)}}
  \cup {Dataless}

\* what the navigation answers: nothing for the observer, or one response.
\* id is the posting the response belongs to: every payload comes for the
\* posting <<1, 2>>, two of them for the posting <<1, 2, 3>> as well
Responses ==
  {[api |-> TRUE, id |-> <<1, 2>>, parses |-> TRUE, body |-> b] : b \in Payloads}
  \cup {[api |-> TRUE, id |-> <<1, 2, 3>>, parses |-> TRUE, body |-> b] :
          b \in {Posting(Title, Location, Body(1), FALSE, <<>>), Dataless}}
  \cup {[api |-> a, id |-> id, parses |-> FALSE, body |-> NoResponse] :
     a \in BOOLEAN, id \in JobIds}
  \cup {[api |-> FALSE, id |-> <<1, 2>>, parses |-> TRUE, body |-> Dataless]}

\* responseHandler
Capture(jobId, response, apiResponse) ==
  IF response.api /\ IsSubstring(jobId, response.id) /\ response.parses
  THEN response.body
  ELSE apiResponse

\* the posting whose response the observer stored in apiResponse, if any
CapturedId(jobId, seen) ==
  IF seen # <<>> /\ Capture(jobId, seen[1], NoResponse) # NoResponse
  THEN seen[1].id ELSE <<>>

\* response.json() rejects in responseHandler, which catches it
ParseFails(jobId, response) ==
  response.api /\ IsSubstring(jobId, response.id) /\ ~response.parses

\* a chain that never takes the payload
PayloadIgnored(apiResponse) == FALSE

\* apiResponse && apiResponse.data
HasData(apiResponse) == apiResponse.captured /\ apiResponse.hasData

\* apiResponse.included.find(item => item.$type === type), or <<>>
RECURSIVE Find(_, _)
Find(included, type) ==
  IF included = <<>> THEN <<>>
  ELSE IF Head(included).type = type THEN <<Head(included)>>
  ELSE Find(Tail(included), type)

Opaque(tag) == <<Run(tag, 1)>>

\* the record built from the intercepted payload
FromPayload(apiResponse) ==
  LET jobData == apiResponse.data
      title == Or(jobData.title, NA)
      location == Or(jobData.formattedLocation, NA)
      description == IF jobData.description = Undefined THEN <<>>
                     ELSE jobData.description
      companyData == IF apiResponse.hasIncluded
                     THEN Find(apiResponse.included, "Company") ELSE <<>>
      followInfo == IF apiResponse.hasIncluded
                    THEN Find(apiResponse.included, "FollowingInfo") ELSE <<>>
      company == IF companyData # <<>> THEN Or(companyData[1].name, NA) ELSE NA
      companyDescription ==
        IF companyData # <<>> THEN Or(companyData[1].description, NA) ELSE NA
      workplaceTypes ==
        (IF jobData.workRemoteAllowed THEN <<Opaque("Remote")>> ELSE <<>>)
        \o (IF Truthy(jobData.formattedEmploymentStatus)
            THEN <<jobData.formattedEmploymentStatus>> ELSE <<>>)
  IN  [title |-> title,
       company |-> company,
       location |-> location,
       metadata |-> <<location>>
                    \o (IF Truthy(jobData.formattedExperienceLevel)
                        THEN <<jobData.formattedExperienceLevel>> ELSE <<>>)
                    \o <<Opaque("applicants")>>,
       workplaceType |-> IF workplaceTypes = <<>> THEN <<NA>> ELSE workplaceTypes,
       description |-> Truncate(description, MaxDescription),
       experienceLevel |-> Or(jobData.formattedExperienceLevel, NA),
       applicants |-> jobData.applies,
       postedAt |-> IF jobData.listedAt # 0 THEN Opaque("ISO date") ELSE NA,
       companyInfo |->
         [size |-> IF companyData # <<>> /\ companyData[1].staffCountRange
                   THEN Opaque("start-end employees") ELSE NA,
          followers |-> IF followInfo # <<>> /\ followInfo[1].followerCount # 0
                        THEN Opaque("followers") ELSE NA,
          industry |-> IF companyData # <<>> /\ companyData[1].industries # <<>>
                       THEN Opaque("industries") ELSE NA,
          description |-> Truncate(companyDescription, MaxCompanyDescription)]]

(***************************************************************************)
(* The job page, as getJobDetailsFromDOM's evaluation sees it.  An element *)
(* that is not there is Undefined, one that is there is its textContent.   *)
(*   title1, title2      the top-card h1, the sticky-header strong         *)
(*   company1, company2  the company-name link, the company-name block     *)
(*   metadata            the tertiary description container                *)
(*   buttons             the workplace type matched in each preference     *)
(*                       button, Undefined for a button that matches none  *)
(*   anchor              #job-details; sibling: its next element sibling   *)
(*                       has class mt4; text: that sibling's text          *)
(*   jobsDescription     .jobs-description is there; mt4s: the texts of    *)
(*                       its .mt4 elements, in document order              *)
(*   article             article.jobs-description__container is there;     *)
(*                       divs: its divs, each with its text and whether    *)
(*                       that holds "Easy Apply" or "Show more options"    *)
(***************************************************************************)
SweepMin == 100

LastResortMin == 500

JobPage(title1, title2, company1, metadata, anchor, mt4s, divs) ==
  [kind |-> "job", title1 |-> title1, title2 |-> title2,
   company1 |-> company1, company2 |-> Str("c", 5),
   metadata |-> metadata,
   buttons |-> <<Opaque("Remote"), Undefined>>,
   anchor |-> anchor.present, sibling |-> anchor.sibling, text |-> anchor.text,
   jobsDescription |-> mt4s.present, mt4s |-> mt4s.texts,
   article |-> divs.present, divs |-> divs.divs]

Anchor(t) == [present |-> TRUE, sibling |-> TRUE, text |-> t]

Anchors ==
  {[present |-> FALSE, sibling |-> FALSE, text |-> <<>>],
   [present |-> TRUE, sibling |-> FALSE, text |-> Body(SweepMin + 1)],
   Anchor(<<>>), Anchor(Str(" ", 3)), Anchor(Padded(Body(1))),
   Anchor(Body(SweepMin - 1)), Anchor(Padded(Body(SweepMin))),
   Anchor(Body(SweepMin + 1)), Anchor(Body(MaxDescription + 1))}

\* a text of n characters unlike Body(n)
Other(n) == Concat(Str("c", n - 1), Str("d", IF n > 0 THEN 1 ELSE 0))

Mt4Lists ==
  {[present |-> FALSE, texts |-> <<>>],
   [present |-> TRUE, texts |-> <<>>],
   [present |-> TRUE, texts |-> <<Body(SweepMin)>>],
   [present |-> TRUE, texts |-> <<Padded(Body(SweepMin + 1))>>],
   [present |-> TRUE, texts |-> <<Body(SweepMin + 2), Body(SweepMin + 1)>>],
   [present |-> TRUE, texts |-> <<Body(SweepMin + 1), Body(SweepMin + 2),
                                  Padded(Other(SweepMin + 2)), Body(SweepMin + 1)>>]}

Div(n, ui) == [text |-> Body(n), ui |-> ui]

DivLists ==
  {[present |-> FALSE, divs |-> <<>>],
   [present |-> TRUE, divs |-> <<Div(LastResortMin, FALSE)>>],
   [present |-> TRUE, divs |-> <<Div(LastResortMin + 2, TRUE),
                                 Div(LastResortMin + 1, FALSE)>>],
   [present |-> TRUE, divs |-> <<Div(SweepMin + 1, FALSE), Div(LastResortMin + 1, FALSE),
                                 Div(LastResortMin + 3, FALSE),
                                 Div(LastResortMin + 2, FALSE)>>]}

\* every anchored block with every list of blocks and every list of divs
DocSpace ==
  {JobPage(Title, Undefined, Str("C", 4), Undefined, a, m, d) :
     a \in Anchors, m \in Mt4Lists, d \in DivLists}

Metadatas ==
  {Undefined,
   <<Run("L", 10), Run(" ", 1), Run("·", 1), Run(" ", 1), Run("x", 12)>>,
   <<Run("·", 1), Run(" ", 1), Run("x", 12)>>}

\* the job pages a getJobDetails call may find: every anchored block, alone
\* and with blocks and divs around it; every combination of the top-card
\* markers
JobDocs ==
  {JobPage(Title, Undefined, Str("C", 4), Undefined, a,
           [present |-> FALSE, texts |-> <<>>],
           [present |-> FALSE, divs |-> <<>>]) : a \in Anchors}
  \cup {JobPage(Title, Undefined, Str("C", 4), Undefined, a,
                [present |-> TRUE, texts |-> <<Body(SweepMin + 2), Body(SweepMin + 1)>>],
                [present |-> TRUE, divs |-> <<Div(LastResortMin + 2, TRUE),
                                              Div(LastResortMin + 1, FALSE)>>]) :
          a \in Anchors}
  \cup {JobPage(t1, t2, c1, md, Anchor(Body(SweepMin + 1)),
                [present |-> FALSE, texts |-> <<>>],
                [present |-> FALSE, divs |-> <<>>]) :
     t1 \in {Undefined, Str(" ", 2), Padded(Title)},
     t2 \in {Undefined, Str("S", 9)},
     c1 \in {Undefined, Str("C", 4)},
     md \in Metadatas}

\* el ? el.textContent.trim() : null
getTextContent(el) == IF el = Undefined THEN Undefined ELSE Trim(el)

\* the text before the first "·"
RECURSIVE Before(_)
Before(t) ==
  IF t = <<>> \/ Head(t).ch = "·" THEN <<>> ELSE <<Head(t)>> \o Before(Tail(t))

\* a sweep that takes a text of the minimum length too
RECURSIVE SweepAtLeast(_, _)
SweepAtLeast(texts, description) ==
  IF texts = <<>> THEN description
  ELSE LET text == Trim(Head(texts))
       IN  SweepAtLeast(Tail(texts),
                        IF Length(text) > Length(description)
                           /\ Length(text) >= SweepMin
                        THEN text ELSE description)

\* mt4s.forEach: the text longer than the description so far and than 100
RECURSIVE Sweep(_, _)
Sweep(texts, description) ==
  IF texts = <<>> THEN description
  ELSE LET text == Trim(Head(texts))
       IN  Sweep(Tail(texts),
                 IF Length(text) > Length(description) /\ Length(text) > SweepMin
                 THEN text ELSE description)

\* a scan that takes the longest text whatever its length
RECURSIVE LastResortAny(_, _)
LastResortAny(divs, description) ==
  IF divs = <<>> THEN description
  ELSE LET text == Trim(Head(divs).text)
       IN  LastResortAny(Tail(divs),
                         IF ~Head(divs).ui /\ Length(text) > Length(description)
                         THEN text ELSE description)

\* allDivs.forEach: longer than 500, no UI text, longer than the description
RECURSIVE LastResort(_, _)
LastResort(divs, description) ==
  IF divs = <<>> THEN description
  ELSE LET text == Trim(Head(divs).text)
       IN  LastResort(Tail(divs),
                      IF Length(text) > LastResortMin /\ ~Head(divs).ui
                         /\ Length(text) > Length(description)
                      THEN text ELSE description)

\* !description || description.length < 100
TooShort(description) == description = <<>> \/ Length(description) < SweepMin

\* a query that finds no description
NoDescription(doc) == <<>>

\* the description of the job page: the anchored block, then the two sweeps
DomDescription(doc) ==
  LET try1 == IF doc.anchor /\ doc.sibling THEN Trim(doc.text) ELSE <<>>
      try2 == IF TooShort(try1) /\ doc.jobsDescription
              THEN Sweep(doc.mt4s, try1) ELSE try1
      try3 == IF TooShort(try2) /\ doc.article
              THEN LastResort(doc.divs, try2) ELSE try2
  IN  try3

RECURSIVE Matched(_)
Matched(buttons) ==
  IF buttons = <<>> THEN <<>>
  ELSE (IF Head(buttons) # Undefined THEN <<Head(buttons)>> ELSE <<>>)
       \o Matched(Tail(buttons))

\* the record built by the evaluation of the job page
FromDOM(doc) ==
  LET metadata == IF doc.metadata = Undefined THEN NA ELSE Trim(doc.metadata)
      preferences == Matched(doc.buttons)
  IN  [NoDetails EXCEPT
         !.title = Or(Or(getTextContent(doc.title1), getTextContent(doc.title2)), NA),
         !.company = Or(Or(getTextContent(doc.company1),
                           getTextContent(doc.company2)), NA),
         !.location = IF doc.metadata = Undefined THEN NA
                      ELSE Trim(Before(metadata)),
         !.metadata = <<metadata>>,
         !.workplaceType = IF preferences = <<>> THEN <<NA>> ELSE preferences,
         !.description = Truncate(DomDescription(doc), MaxDescription),
         !.companyInfo = [size |-> NA, followers |-> NA, industry |-> NA,
                          description |-> NA]]

(***************************************************************************)
(* The handler, case "linkedin_get_job_details", and getJobDetails.        *)
(***************************************************************************)
DetailArgs == {[present |-> FALSE, jobUrl |-> <<>>]}
              \cup [present : {TRUE}, jobUrl : JobUrls]

DetailsError == Envelope("details", FALSE, "Error getting job details")

DetailsResult(details) == [Envelope("details", TRUE, "") EXCEPT !.details = details]

\* up to the navigation: the job id, the interception, the observers
CallDetails(args) ==
  /\ Idle
  /\ UNCHANGED threads
  /\ UNCHANGED <<session, cookieFile, siteAuth, pageUrl>>
  /\ IF ~args.present
     THEN /\ reply' = ErrorReply("details", "Cannot read properties of undefined")
          /\ call' = Enter("details")
     ELSE IF args.jobUrl = <<>>
     THEN /\ reply' = Envelope("details", FALSE, "Could not extract job ID from URL")
          /\ call' = [Enter("details") EXCEPT !.invoked = TRUE]
     ELSE IF page = "null"
     THEN /\ reply' = DetailsError
          /\ call' = [Enter("details") EXCEPT !.invoked = TRUE, !.jobId = args.jobUrl,
                                              !.faults = {"TypeError"}]
     ELSE \/ /\ reply' = NoReply
             /\ call' = [Enter("details") EXCEPT !.pc = "navigate", !.invoked = TRUE,
                                                 !.jobId = args.jobUrl,
                                                 !.calls = <<"intercept">>]
          \/ \* page.setRequestInterception(true) rejects
             /\ reply' = DetailsError
             /\ call' = [Enter("details") EXCEPT !.invoked = TRUE,
                                                 !.jobId = args.jobUrl,
                                                 !.calls = <<"intercept">>,
                                                 !.faults = {"intercept"}]

\* the navigation and the settle delay, the observer seeing what comes by
DetailsNavigate ==
  /\ At("details", "navigate")
  /\ UNCHANGED threads
  /\ UNCHANGED <<session, cookieFile, siteAuth>>
  /\ \/ \* page.goto rejects
        /\ UNCHANGED pageUrl
        /\ reply' = DetailsError
        /\ call' = [call EXCEPT !.pc = "idle", !.calls = Did("goto_job"),
                                !.faults = {"navigation"}]
     \/ \E seen \in {<<>>} \cup {<<r>> : r \in Responses} :
          /\ pageUrl' = JobUrl
          /\ LET apiResponse ==
                   IF seen = <<>> THEN NoResponse
                   ELSE Capture(call.jobId, seen[1], NoResponse)
                 parse == IF seen # <<>> /\ ParseFails(call.jobId, seen[1])
                          THEN {"parse"} ELSE {}
             IN  IF randomDelay = "undefined"
                 THEN /\ reply' = DetailsError
                      /\ call' = [call EXCEPT !.pc = "idle",
                                              !.calls = Did("goto_job"),
                                              !.apiResponse = apiResponse,
                                              !.capturedId = CapturedId(call.jobId, seen),
                                              !.faults = parse \cup {"TypeError"}]
                 ELSE \/ /\ reply' = reply
                         /\ call' = [call EXCEPT !.pc = "chain",
                                                 !.calls = Did("goto_job") \o <<"settle">>,
                                                 !.apiResponse = apiResponse,
                                              !.capturedId = CapturedId(call.jobId, seen),
                                                 !.faults = parse]
                      \/ \* page.setRequestInterception(false) rejects
                         /\ reply' = DetailsError
                         /\ call' = [call EXCEPT !.pc = "idle",
                                                 !.calls = Did("goto_job"),
                                                 !.apiResponse = apiResponse,
                                              !.capturedId = CapturedId(call.jobId, seen),
                                                 !.faults = parse \cup {"unintercept"}]

\* the chain: the intercepted payload if it has data, else the document,
\* which is one of docs
DetailsChainOn(docs) ==
  /\ At("details", "chain")
  /\ UNCHANGED threads
  /\ UNCHANGED <<session, cookieFile, siteAuth, pageUrl>>
  /\ IF HasData(call.apiResponse)
     THEN /\ reply' = DetailsResult(FromPayload(call.apiResponse))
          /\ call' = [call EXCEPT !.pc = "idle", !.calls = Did("map_payload")]
     ELSE \/ \E doc \in docs :
               /\ reply' = DetailsResult(FromDOM(doc))
               /\ call' = [call EXCEPT !.pc = "idle", !.doc = doc,
                                       !.calls = Did("evaluate_dom")]
          \/ \* page.evaluate rejects: getJobDetailsFromDOM's catch
             /\ reply' = Envelope("details", FALSE, "DOM extraction failed")
             /\ call' = [call EXCEPT !.pc = "idle", !.calls = Did("evaluate_dom"),
                                     !.faults = call.faults \cup {"evaluate"}]

DetailsChain == DetailsChainOn(JobDocs)

(***************************************************************************)
(* cleanup(), and the handler's reply to it                                *)
(***************************************************************************)
\* a cleanup that forgets to reset the login flag
KeepsLogin == [browser |-> "null", page |-> "null", isLoggedIn |-> isLoggedIn]

\* this.browser = null; this.page = null; this.isLoggedIn = false
Released == [browser |-> "null", page |-> "null", isLoggedIn |-> FALSE]

CallCleanup ==
  /\ Idle
  /\ UNCHANGED threads
  /\ UNCHANGED <<randomDelay, cookieFile, siteAuth>>
  /\ IF browser = "null"
     THEN /\ UNCHANGED <<browser, page, isLoggedIn, pageUrl>>
          /\ call' = [Enter("cleanup") EXCEPT !.invoked = TRUE]
          /\ reply' = Envelope("cleanup", TRUE, "Cleanup complete")
     ELSE \/ /\ browser' = Released.browser
             /\ page' = Released.page
             /\ isLoggedIn' = Released.isLoggedIn
             /\ pageUrl' = Blank
             /\ call' = [Enter("cleanup") EXCEPT !.invoked = TRUE, !.calls = <<"close">>]
             /\ reply' = Envelope("cleanup", TRUE, "Cleanup complete")
          \/ \* browser.close() rejects: the handler's catch replies
             /\ UNCHANGED <<browser, page, isLoggedIn, pageUrl>>
             /\ call' = [Enter("cleanup") EXCEPT !.invoked = TRUE, !.calls = <<"close">>,
                                                 !.faults = {"close"}]
             /\ reply' = ErrorReply("cleanup", "close failed")

(***************************************************************************)
(* Out of band: the user completes the verification the site asked for.    *)
(***************************************************************************)
ManualResolve ==
  /\ Idle
  /\ UNCHANGED threads
  /\ browser # "null"
  /\ page # "null"
  /\ Includes(pageUrl, "checkpoint") \/ Includes(pageUrl, "challenge")
  /\ siteAuth' = TRUE
  /\ pageUrl' = FeedUrl
  /\ call' = [call EXCEPT !.resolved = TRUE]
  /\ UNCHANGED <<session, cookieFile, reply>>

(***************************************************************************)
(* The commands, await by await, for calls that overlap: login with its    *)
(* initialize() and its first navigation, searchJobs and getJobDetails up  *)
(* to their navigation, cleanup with its browser.close().                  *)
(***************************************************************************)
Thread(p, at) == [threads EXCEPT !.pc[p] = at]

\* request p starts command o and stands at `at`
Start(p, o, at) ==
  [Thread(p, at) EXCEPT !.made[p] = @ + 1, !.op[p] = o]

\* login: if (this.browser) return; otherwise puppeteer.launch is called
InitEnter(p) ==
  /\ threads.pc[p] = "idle"
  /\ threads.made[p] < MaxInitCalls
  /\ threads' = Start(p, "login", IF browser # "null" THEN "returned" ELSE "launch")
  /\ UNCHANGED <<session, cookieFile, siteAuth, pageUrl, call, reply>>

\* this.browser = await puppeteer.launch(...); browser.newPage is called
InitLaunch(p) ==
  /\ threads.pc[p] = "launch"
  /\ \/ /\ browser' = "browser"
        /\ threads' = [Thread(p, "newPage") EXCEPT
                         !.launched = @ + 1,
                         !.cur = threads.launched + 1,
                         !.own[p] = threads.launched + 1]
     \/ /\ threads' = [Thread(p, "threw") EXCEPT !.faulted = TRUE]
        /\ UNCHANGED browser
  /\ UNCHANGED <<page, randomDelay, isLoggedIn, cookieFile, siteAuth, pageUrl,
                 call, reply>>

\* the page is there and its browser was not closed
PageLive == page # "null" /\ threads.pageOn \notin threads.closed

\* this.page = await this.browser.newPage(); the header setup is called.
\* newPage() was called on the browser this request launched; it rejects
\* when that browser was closed meanwhile.  A new page has no observers.
InitNewPage(p) ==
  /\ threads.pc[p] = "newPage"
  /\ \/ /\ threads.own[p] \notin threads.closed
        /\ page' = "page"
        /\ threads' = [Thread(p, "headers") EXCEPT
                         !.pages = @ + 1,
                         !.pageOn = threads.own[p],
                         !.pageNo = threads.pages + 1,
                         !.observers = 0,
                         !.intercepting = FALSE]
     \/ /\ threads' = [Thread(p, "threw") EXCEPT !.faulted = TRUE]
        /\ UNCHANGED page
  /\ UNCHANGED <<browser, randomDelay, isLoggedIn, cookieFile, siteAuth, pageUrl,
                 call, reply>>

\* setUserAgent, setExtraHTTPHeaders, loadCookies; this.randomDelay = ...
InitHeaders(p) ==
  /\ threads.pc[p] = "headers"
  /\ \/ /\ PageLive
        /\ randomDelay' = "function"
        /\ siteAuth' = LoadCookies(siteAuth)
        /\ threads' = Thread(p, "returned")
     \/ /\ threads' = [Thread(p, "threw") EXCEPT !.faulted = TRUE]
        /\ UNCHANGED <<randomDelay, siteAuth>>
  /\ UNCHANGED <<browser, page, isLoggedIn, cookieFile, pageUrl, call, reply>>

\* a fault reached the command's catch: the command returns its failure
InitDone(p) ==
  /\ threads.pc[p] = "threw"
  /\ threads' = Thread(p, "idle")
  /\ UNCHANGED <<session, cookieFile, siteAuth, pageUrl, call, reply>>

\* login after initialize(): await this.page.goto(".../feed/")
LoginNavigate(p) ==
  /\ threads.pc[p] = "returned"
  /\ IF ~PageLive
     THEN /\ threads' = Thread(p, "threw")
          /\ UNCHANGED pageUrl
     ELSE /\ threads' = Thread(p, "goto")
          /\ pageUrl' = FeedUrl
  /\ UNCHANGED <<session, cookieFile, siteAuth, call, reply>>

\* searchJobs: the guard, then await this.page.goto(searchUrl)
SearchEnter(p) ==
  /\ threads.pc[p] = "idle"
  /\ threads.made[p] < MaxInitCalls
  /\ IF NotAuthenticated
     THEN /\ threads' = Start(p, "search", "idle")
          /\ UNCHANGED pageUrl
     ELSE IF ~PageLive
     THEN /\ threads' = Start(p, "search", "threw")
          /\ UNCHANGED pageUrl
     ELSE /\ threads' = Start(p, "search", "goto")
          /\ pageUrl' = SearchUrl
  /\ UNCHANGED <<session, cookieFile, siteAuth, call, reply>>

\* getJobDetails: setRequestInterception(true), page.on("request"),
\* page.on("response"), then await page.goto(jobUrl)
DetailsEnter(p) ==
  /\ threads.pc[p] = "idle"
  /\ threads.made[p] < MaxInitCalls
  /\ IF ~PageLive
     THEN /\ threads' = Start(p, "details", "threw")
          /\ UNCHANGED pageUrl
     ELSE /\ threads' = [Start(p, "details", "goto") EXCEPT
                           !.intercepting = TRUE,
                           !.observers = @ + 1,
                           !.watch[p] = threads.pageNo]
          /\ pageUrl' = JobUrl
  /\ UNCHANGED <<session, cookieFile, siteAuth, call, reply>>

\* getJobDetails after the navigation and the settling delay:
\* page.off("request"), page.off("response"), setRequestInterception(false).
\* The observers come off the page they were put on, if it still is
\* this.page.
Unobserve(p) ==
  [Thread(p, "idle") EXCEPT
     !.observers = IF threads.watch[p] = threads.pageNo /\ @ > 0
                   THEN @ - 1 ELSE @,
     !.intercepting = FALSE]

\* the navigation settles and the command comes to its end; a login whose
\* page is still there and is on the feed marks the session logged in; a
\* getJobDetails whose navigation resolved and whose settling delay ran
\* takes its observers off, one whose navigation rejected (or whose
\* randomDelay is not a function) goes to its catch with them in place
OpReturn(p) ==
  /\ threads.pc[p] = "goto"
  /\ \/ /\ threads.op[p] = "details" /\ PageLive /\ randomDelay # "undefined"
        /\ threads' = Unobserve(p)
     \/ /\ threads.op[p] = "details"
        /\ threads' = Thread(p, "idle")
     \/ /\ threads.op[p] # "details"
        /\ threads' = Thread(p, "idle")
  /\ \/ /\ threads.op[p] = "login" /\ PageLive /\ siteAuth
        /\ SessionRestored(pageUrl)
        /\ isLoggedIn' = TRUE
     \/ UNCHANGED isLoggedIn
  /\ UNCHANGED <<browser, page, randomDelay, cookieFile, siteAuth, pageUrl,
                 call, reply>>

\* cleanup: if (this.browser) await this.browser.close()
CleanupEnter(p) ==
  /\ threads.pc[p] = "idle"
  /\ threads.made[p] < MaxInitCalls
  /\ threads' = [Start(p, "cleanup", IF browser = "null" THEN "idle" ELSE "closing")
                   EXCEPT !.cleaned = TRUE,
                          !.target[p] = threads.cur,
                          !.during = @ \/ \E q \in Procs \ {p} :
                                            threads.pc[q] # "idle"]
  /\ UNCHANGED <<session, cookieFile, siteAuth, pageUrl, call, reply>>

\* close() resolved: this.browser = null; this.page = null; isLoggedIn = false
CleanupClose(p) ==
  /\ threads.pc[p] = "closing"
  /\ \/ /\ browser' = Released.browser
        /\ page' = Released.page
        /\ isLoggedIn' = Released.isLoggedIn
        /\ threads' = [Thread(p, "idle") EXCEPT
                         !.closed = @ \cup {threads.target[p]},
                         !.cur = 0, !.pageOn = 0, !.pageNo = 0,
                         !.observers = 0, !.intercepting = FALSE]
     \/ \* browser.close() rejects
        /\ threads' = [Thread(p, "threw") EXCEPT !.faulted = TRUE]
        /\ UNCHANGED <<browser, page, isLoggedIn>>
  /\ UNCHANGED <<randomDelay, cookieFile, siteAuth, pageUrl, call, reply>>

NextOverlap ==
  \/ \E p \in Procs : InitEnter(p)
  \/ \E p \in Procs : InitLaunch(p)
  \/ \E p \in Procs : InitNewPage(p)
  \/ \E p \in Procs : InitHeaders(p)
  \/ \E p \in Procs : InitDone(p)
  \/ \E p \in Procs : LoginNavigate(p)
  \/ \E p \in Procs : SearchEnter(p)
  \/ \E p \in Procs : DetailsEnter(p)
  \/ \E p \in Procs : OpReturn(p)
  \/ \E p \in Procs : CleanupEnter(p)
  \/ \E p \in Procs : CleanupClose(p)

SpecOverlap == Init /\ [][NextOverlap]_vars

Next ==
  \/ \E r \in LoginRequests : CallLogin(r.args, r.env)
  \/ LoginInitialize
  \/ LoginProbe
  \/ LoginForm
  \/ LoginClassify
  \/ \E args \in SearchArgs : CallSearch(args)
  \/ SearchExtract
  \/ \E args \in DetailArgs : CallDetails(args)
  \/ DetailsNavigate
  \/ DetailsChain
  \/ CallCleanup
  \/ ManualResolve

Spec == Init /\ [][Next]_vars

(***************************************************************************)
(* Progress.  A suspended operation goes on when the call it awaits        *)
(* settles.  Each wait of login, searchJobs and getJobDetails carries a    *)
(* bound in milliseconds: the timeout option of a navigation or of a       *)
(* selector wait, the timer in the race after the submit, the upper end of *)
(* the injected delays.  Puppeteer reads a timeout of 0 as no bound at     *)
(* all.  A step is taken eventually when the waits before it are bounded;  *)
(* puppeteer.launch, without a timeout option, has the library's default.  *)
(* Whether an operation returns depends on the session it finds, not on    *)
(* the commands before it: one command is followed from its invocation to  *)
(* its return, from each session object the server can hold between two    *)
(* commands.                                                               *)
(***************************************************************************)
\* waits without a bound
NoBound(wait) == 0

Bound(wait) ==
  CASE wait = "goto_feed" -> 15000
    [] wait = "goto_login" -> 15000
    [] wait = "username" -> 10000
    [] wait = "race" -> 5000
    [] wait = "goto_search" -> 30000
    [] wait = "markers" -> 15000
    [] wait = "goto_job" -> 30000
    [] wait = "settle" -> 4000
    [] wait = "description" -> 5000
    [] OTHER -> 3000

Bounded(waits) == \A wait \in waits : Bound(wait) > 0

\* the session objects between two commands: never initialized or cleaned
\* up, left half-built by an initialize() that threw, initialized
SessionsBetween ==
  {<<"null", "null", rd, FALSE>> : rd \in {"undefined", "function"}}
  \cup {<<"browser", pg, rd, FALSE>> :
          pg \in {"null", "page"}, rd \in {"undefined", "function"}}
  \cup {<<"browser", "page", "function", TRUE>>}

InitLive ==
  /\ \E s \in SessionsBetween :
       /\ browser = s[1]
       /\ page = s[2]
       /\ randomDelay = s[3]
       /\ isLoggedIn = s[4]
  /\ cookieFile \in {"absent", "anon", "auth", "partial"}
  /\ siteAuth \in BOOLEAN
  /\ pageUrl = IF isLoggedIn THEN JobUrl ELSE Blank
  /\ call = NoCall
  /\ reply = NoReply
  /\ threads = NoThreads

\* no command was made yet
First == call.op = "none"

NextLive ==
  \/ First /\ \E r \in LoginRequests : CallLogin(r.args, r.env)
  \/ LoginInitialize
  \/ LoginProbe
  \/ LoginForm
  \/ LoginClassify
  \/ First /\ \E args \in SearchArgs : CallSearch(args)
  \/ SearchExtract
  \/ First /\ \E args \in DetailArgs : CallDetails(args)
  \/ DetailsNavigate
  \/ DetailsChain

SpecLive ==
  /\ InitLive /\ [][NextLive]_vars
  /\ WF_vars(LoginInitialize)
  /\ WF_vars(Bounded({"goto_feed", "delay"}) /\ LoginProbe)
  /\ WF_vars(Bounded({"goto_login", "username", "delay"}) /\ LoginForm)
  /\ WF_vars(Bounded({"race", "delay"}) /\ LoginClassify)
  /\ WF_vars(Bounded({"goto_search", "markers", "delay"}) /\ SearchExtract)
  /\ WF_vars(Bounded({"goto_job", "settle"}) /\ DetailsNavigate)
  /\ WF_vars(Bounded({"description"}) /\ DetailsChain)

(***************************************************************************)
(* The mapping of the intercepted payload, on its own: getJobDetails has   *)
(* navigated and settled with a payload that has a data section, and runs  *)
(* the chain.  The payload is any combination of present and absent        *)
(* fields: in the data section, in the included collection (absent, empty, *)
(* with or without the Company item and the FollowingInfo item), and in    *)
(* the Company item.                                                       *)
(***************************************************************************)
DataSpace ==
  [title : {Undefined, Title},
   formattedLocation : {Undefined, Location},
   description : {Undefined, Body(1)},
   workRemoteAllowed : BOOLEAN,
   formattedEmploymentStatus : {Undefined, Str("E", 9)},
   formattedExperienceLevel : {Undefined, Str("X", 5)},
   applies : {0, 7},
   listedAt : {0, 1}]

Companies ==
  [type : {"Company"}, name : {Undefined, Str("C", 4)},
   description : {Undefined, Body(1)}, staffCountRange : BOOLEAN,
   industries : {<<>>, <<Str("I", 8)>>}, followerCount : {0}]

Followings == {FollowingInfo(0), FollowingInfo(1500)}

IncludedSpace ==
  {<<>>} \cup {<<c>> : c \in Companies} \cup {<<f>> : f \in Followings}
  \cup {<<f, c>> : f \in Followings, c \in Companies}

PayloadSpace ==
  {[captured |-> TRUE, hasData |-> TRUE, data |-> d,
    hasIncluded |-> FALSE, included |-> <<>>] : d \in DataSpace}
  \cup {[captured |-> TRUE, hasData |-> TRUE, data |-> d,
         hasIncluded |-> TRUE, included |-> i] :
          d \in DataSpace, i \in IncludedSpace}

InitPayload ==
  /\ browser = "browser"
  /\ page = "page"
  /\ randomDelay = "function"
  /\ isLoggedIn = TRUE
  /\ cookieFile = "auth"
  /\ siteAuth = TRUE
  /\ pageUrl = JobUrl
  /\ \E p \in PayloadSpace :
       call = [NoCall EXCEPT !.op = "details", !.pc = "chain", !.invoked = TRUE,
                             !.jobId = <<1, 2>>,
                             !.calls = <<"intercept", "goto_job", "settle">>,
                             !.apiResponse = p,
                             !.capturedId = <<1, 2>>,
                             !.before = <<"browser", "page", "function", TRUE>>]
  /\ reply = NoReply
  /\ threads = NoThreads

NextPayload == DetailsChain

SpecPayload == InitPayload /\ [][NextPayload]_vars

(***************************************************************************)
(* The document query, on its own: getJobDetails has navigated and settled *)
(* without a payload that has a data section, and evaluates the job page,  *)
(* which is any page of DocSpace.                                          *)
(***************************************************************************)
InitDocument ==
  /\ browser = "browser"
  /\ page = "page"
  /\ randomDelay = "function"
  /\ isLoggedIn = TRUE
  /\ cookieFile = "auth"
  /\ siteAuth = TRUE
  /\ pageUrl = JobUrl
  /\ \E r \in {NoResponse, Dataless} :
       call = [NoCall EXCEPT !.op = "details", !.pc = "chain", !.invoked = TRUE,
                             !.jobId = <<1, 2>>,
                             !.calls = <<"intercept", "goto_job", "settle">>,
                             !.apiResponse = r,
                             !.capturedId = IF r.captured THEN <<1, 2>> ELSE <<>>,
                             !.before = <<"browser", "page", "function", TRUE>>]
  /\ reply = NoReply
  /\ threads = NoThreads

NextDocument == DetailsChainOn(DocSpace)

SpecDocument == InitDocument /\ [][NextDocument]_vars

(***************************************************************************)
(* randomDelay(min, max): a promise that a one-shot timer resolves.  The   *)
(* duration is Math.random() * (max - min) + min; Math.random() is a       *)
(* fraction k / RandomSteps with 0 <= k < RandomSteps, and setTimeout      *)
(* keeps the whole milliseconds of it.                                     *)
(***************************************************************************)
DefaultMin == 1000
DefaultMax == 3000

\* the draws of Math.random(), as numerators over RandomSteps
RandomSteps == 4
Randoms == 0 .. RandomSteps - 1

\* how far the clock moves in one step of the model, in milliseconds
ClockStep == 500

\* an argument left out, or a number of milliseconds
Omitted == <<>>
DelayArgs == {Omitted} \cup {<<ms>> : ms \in {0, 1000, 2000, 3000, 4000}}

\* a default parameter: the default stands in for an argument left out
Default(arg, default) == IF arg = Omitted THEN default ELSE arg[1]

DurationOver(min, max, k) == min + (k * max) \div RandomSteps

Duration(min, max, k) == min + (k * (max - min)) \div RandomSteps

\* the helper is called: the duration is drawn and the timer is set
DelayCall(min, max, k) ==
  /\ randomDelay = "function"
  /\ threads.timer.state \in {"none", "resolved"}
  /\ LET lo == Default(min, DefaultMin)
         hi == Default(max, DefaultMax)
     IN threads' = [threads EXCEPT !.timer =
          [state |-> "pending", args |-> <<min, max>>,
           min |-> lo, max |-> hi, d |-> Duration(lo, hi, k),
           elapsed |-> 0, resolved |-> 0, before |-> session]]
  /\ UNCHANGED <<session, cookieFile, siteAuth, pageUrl, call, reply>>

\* time passes, until shortly after the timer is due
DelayTick ==
  /\ threads.timer.state # "none"
  /\ threads.timer.elapsed <= threads.timer.d
  /\ threads' = [threads EXCEPT !.timer.elapsed = @ + ClockStep]
  /\ UNCHANGED <<session, cookieFile, siteAuth, pageUrl, call, reply>>

\* the timer is due and calls resolve; a timer of setTimeout fires once
DelayFire ==
  /\ threads.timer.state = "pending"
  /\ threads.timer.elapsed >= threads.timer.d
  /\ threads' = [threads EXCEPT !.timer.state = "resolved",
                                !.timer.resolved = @ + 1]
  /\ UNCHANGED <<session, cookieFile, siteAuth, pageUrl, call, reply>>

\* the helper exists once initialize() has installed it
InitDelay ==
  /\ \E s \in SessionsBetween :
       /\ s[3] = "function"
       /\ browser = s[1]
       /\ page = s[2]
       /\ randomDelay = s[3]
       /\ isLoggedIn = s[4]
  /\ cookieFile \in {"absent", "auth"}
  /\ siteAuth \in BOOLEAN
  /\ pageUrl = IF isLoggedIn THEN JobUrl ELSE Blank
  /\ call = NoCall
  /\ reply = NoReply
  /\ threads = NoThreads

NextDelay ==
  \/ \E min \in DelayArgs, max \in DelayArgs, k \in Randoms :
       DelayCall(min, max, k)
  \/ DelayTick
  \/ DelayFire

\* the event loop runs: the clock advances and a due timer fires
SpecDelay ==
  /\ InitDelay /\ [][NextDelay]_vars
  /\ WF_vars(DelayTick)
  /\ WF_vars(DelayFire)

(***************************************************************************)
(* What the claims speak of.                                               *)
(***************************************************************************)
\* the last call was of operation o and has returned
Completed(o) == Idle /\ call.op = o /\ reply.op = o

\* the calls of the last operation that touch the credential form
FormCalls_ == {"goto_login", "type_username", "type_password", "click_submit"}

Made(cs) == \E i \in DOMAIN call.calls : call.calls[i] \in cs

Navigations == {"goto_feed", "goto_login", "goto_search", "goto_job"}

\* the cards of the evaluated result page that have both a title and a link
Qualifying(doc) == {i \in DOMAIN doc.cards : doc.cards[i].link /\ doc.cards[i].strong}

SearchSucceeded == Completed("search") /\ reply.shape = "envelope" /\ reply.success

DetailsSucceeded == Completed("details") /\ reply.shape = "envelope" /\ reply.success

Min(a, b) == IF a < b THEN a ELSE b

(***************************************************************************)
(* C1: in login(), if the navigation to the landing page leaves the page   *)
(* URL containing "/feed/", login returns success=true and marks the       *)
(* session authenticated, and neither navigates to the credential form,    *)
(* nor types the identifier or the secret, nor clicks submit.              *)
(***************************************************************************)
C1_SessionRestore ==
  (Completed("login") /\ Includes(call.landing, "/feed/"))
    => /\ reply.shape = "envelope" /\ reply.success
       /\ isLoggedIn
       /\ ~Made(FormCalls_)

(***************************************************************************)
(* C2: every searchJobs call that returns success returns at most 25 jobs, *)
(* and totalFound is at least the number of jobs returned.                 *)
(***************************************************************************)
C2_AtMost25 ==
  SearchSucceeded
    => /\ Len(reply.jobs) <= 25
       /\ reply.totalFound >= Len(reply.jobs)

C2_Witness ==
  /\ SearchSucceeded
  /\ Len(call.doc.cards) > 25
  /\ reply.totalFound > 25
  /\ Len(reply.jobs) = 25

(***************************************************************************)
(* C3: a listing element whose title or whose link cannot be located is    *)
(* never among the jobs searchJobs returns: every returned job comes from  *)
(* an element that has both.                                               *)
(***************************************************************************)
C3_NoPartialListing ==
  SearchSucceeded
    => \A k \in DOMAIN reply.jobs :
         /\ reply.jobs[k].jobId \in Qualifying(call.doc)
         /\ reply.jobs[k].title = <<"title", reply.jobs[k].jobId>>
         /\ reply.jobs[k].link = <<"href", reply.jobs[k].jobId>>

C3_Witness ==
  /\ SearchSucceeded
  /\ Len(reply.jobs) > 0
  /\ \E i, j \in DOMAIN call.doc.cards :
       /\ ~call.doc.cards[i].link
       /\ call.doc.cards[j].link /\ ~call.doc.cards[j].strong

(***************************************************************************)
(* C4: totalFound is the number of listing elements that have both a title *)
(* and a link, counted before the truncation, and the number of returned   *)
(* jobs is min(25, totalFound).                                            *)
(***************************************************************************)
C4_TotalFound ==
  SearchSucceeded
    => /\ reply.totalFound = Cardinality(Qualifying(call.doc))
       /\ Len(reply.jobs) = Min(25, reply.totalFound)

\* three elements, one of them without a link: 2 jobs, totalFound 2
C4_Witness ==
  /\ SearchSucceeded
  /\ Len(call.doc.cards) = 3
  /\ Cardinality(Qualifying(call.doc)) = 2
  /\ \E i \in DOMAIN call.doc.cards : ~call.doc.cards[i].link
  /\ Len(reply.jobs) = 2
  /\ reply.totalFound = 2

C4_WitnessTruncated ==
  /\ SearchSucceeded
  /\ reply.totalFound = 26
  /\ Len(reply.jobs) = 25

(***************************************************************************)
(* C5: whenever the response intercepted by the end of the settle delay    *)
(* has a data section, getJobDetails returns a record whose title and      *)
(* location are the payload's ("N/A" for one the payload lacks), and the   *)
(* document is not queried: the chain stops at the first strategy that     *)
(* succeeds.                                                               *)
(***************************************************************************)
\* the chain of getJobDetails was reached with this payload in apiResponse
ChainReached == Completed("details") /\ Made({"settle"})

C5_PayloadFirst ==
  (ChainReached /\ call.apiResponse.captured /\ call.apiResponse.hasData)
    => /\ reply.shape = "envelope" /\ reply.success
       /\ reply.details.title
            = (IF call.apiResponse.data.title \in {Undefined, <<>>}
               THEN NA ELSE call.apiResponse.data.title)
       /\ reply.details.location
            = (IF call.apiResponse.data.formattedLocation \in {Undefined, <<>>}
               THEN NA ELSE call.apiResponse.data.formattedLocation)
       /\ ~Made({"evaluate_dom"})
       /\ call.doc = NoDoc

\* a payload with a location and no title
C5_Witness ==
  /\ ChainReached
  /\ call.apiResponse.captured /\ call.apiResponse.hasData
  /\ call.apiResponse.data.title = Undefined
  /\ call.apiResponse.data.formattedLocation = Location
  /\ reply.success
  /\ reply.details.title = NA
  /\ reply.details.location = Location

(***************************************************************************)
(* C6: the truncation law.  A description longer than the bound (5000 for  *)
(* the job description, 1000 for the organization description) is returned *)
(* as its first bound characters followed by "..."; one at or under the    *)
(* bound is returned as it is; truncating the returned text again gives    *)
(* the returned text.                                                      *)
(***************************************************************************)
TruncationLaw(in, out, bound) ==
  /\ Length(in) > bound
       => /\ Length(out) = bound + 3
          /\ Substring(out, bound) = Substring(in, bound)
          /\ out = Concat(Substring(in, bound), Str(".", 3))
  /\ Length(in) <= bound => out = in
  /\ Truncate(out, bound) = out

\* the description the payload carries: jobData.description?.text || ""
PayloadDescription ==
  IF call.apiResponse.data.description = Undefined THEN <<>>
  ELSE call.apiResponse.data.description

\* the organization description the payload carries, "N/A" without one
PayloadCompanyDescription ==
  LET companies == SelectSeq(call.apiResponse.included,
                             LAMBDA item : item.type = "Company")
  IN  IF companies = <<>> \/ companies[1].description \in {Undefined, <<>>}
      THEN NA ELSE companies[1].description

FromThePayload == DetailsSucceeded /\ Made({"map_payload"})

FromTheDocument == DetailsSucceeded /\ call.doc # NoDoc

C6_Truncation ==
  /\ FromThePayload
       => /\ TruncationLaw(PayloadDescription, reply.details.description, 5000)
          /\ TruncationLaw(PayloadCompanyDescription,
                           reply.details.companyInfo.description, 1000)
  /\ FromTheDocument
       => TruncationLaw(DomDescription(call.doc), reply.details.description, 5000)

\* a job description one character over the bound
C6_Witness ==
  /\ FromThePayload
  /\ Length(PayloadDescription) = 5001
  /\ Length(reply.details.description) = 5003

\* an organization description over the bound
C6_WitnessCompany ==
  /\ FromThePayload
  /\ Length(PayloadCompanyDescription) > 1000
  /\ Length(reply.details.companyInfo.description) = 1003

\* a description that had been truncated before
C6_WitnessAgain ==
  /\ FromThePayload
  /\ PayloadDescription = Concat(Str("a", 5000), Str(".", 3))
  /\ reply.details.description = PayloadDescription

\* a document whose description is one character over the bound
C6_WitnessDocument ==
  /\ FromTheDocument
  /\ Length(DomDescription(call.doc)) = 5001
  /\ Length(reply.details.description) = 5003

(***************************************************************************)
(* C7: if the navigation succeeds and no response was captured by the end  *)
(* of the settle delay, getJobDetails returns success with the record the  *)
(* document query builds: title, organization and location from the        *)
(* structural markers; and when the block anchored at #job-details holds   *)
(* text, the description returned is not empty.                            *)
(***************************************************************************)
\* the text of the first of two markers that has any, "N/A" if neither has
Marker(first, second) ==
  IF first # Undefined /\ Trim(first) # <<>> THEN Trim(first)
  ELSE IF second # Undefined /\ Trim(second) # <<>> THEN Trim(second)
  ELSE NA

AnchoredText(doc) == IF doc.anchor /\ doc.sibling THEN Trim(doc.text) ELSE <<>>

Given(v) == v \notin {"undefined", ""}

C8_MissingCredentials ==
  Completed("login")
    => /\ (~(Given(call.args.email) \/ Given(call.env.email))
           \/ ~(Given(call.args.password) \/ Given(call.env.password)))
         => /\ reply.shape = "envelope" /\ ~reply.success
            /\ reply.message # ""
            /\ ~Made({"launch"} \cup Navigations)
            /\ session = call.before
       /\ call.invoked
         => /\ call.email = (IF Given(call.args.email)
                             THEN call.args.email ELSE call.env.email)
            /\ call.password = (IF Given(call.args.password)
                                THEN call.args.password ELSE call.env.password)

(***************************************************************************)
(* C9: a checkpoint does not stick.  A login whose URL after the submit    *)
(* holds "checkpoint" or "challenge" returns success=false with            *)
(* needsManualVerification; a later login that finds the landing page      *)
(* reachable returns success=true by the session check, and does not go to *)
(* the form again.                                                         *)
(***************************************************************************)
C9_CheckpointNotSticky ==
  /\ (Completed("login")
      /\ (Includes(call.postUrl, "checkpoint") \/ Includes(call.postUrl, "challenge")))
       => /\ reply.shape = "envelope" /\ ~reply.success
          /\ reply.needsManualVerification
  /\ (Completed("login") /\ call.afterCheckpoint /\ Includes(call.landing, "/feed/"))
       => /\ reply.shape = "envelope" /\ reply.success
          /\ isLoggedIn
          /\ ~Made(FormCalls_)

C9_Witness ==
  /\ Completed("login")
  /\ call.afterCheckpoint
  /\ Includes(call.landing, "/feed/")
  /\ reply.success
  /\ reply.message = "Already logged in (session restored)"
  /\ call.calls = <<"goto_feed">>

(***************************************************************************)
(* C10: searchJobs called on a session that is not authenticated returns   *)
(* the not-logged-in failure, calls nothing on the browser and leaves the  *)
(* session as it was.                                                      *)
(***************************************************************************)
C10_SearchRequiresLogin ==
  (Completed("search") /\ call.invoked /\ ~call.before[4])
    => /\ reply.shape = "envelope" /\ ~reply.success
       /\ reply.message = "Not logged in. Please log in first."
       /\ call.calls = <<>>
       /\ session = call.before

\* a search on a session that has a browser and a page but is not logged in
C10_Witness ==
  /\ Completed("search")
  /\ call.invoked
  /\ ~call.before[4]
  /\ page # "null"
  /\ ~reply.success

(***************************************************************************)
(* C11: for a job URL from which no job id can be parsed, getJobDetails    *)
(* skips the intercepted-response strategy and goes on with the document   *)
(* query on the navigated page; it does not end the operation there.       *)
(***************************************************************************)
\* getJobDetails ran with a URL that has no /jobs/view/<digits>
NoIdCall == Completed("details") /\ call.invoked /\ call.jobId = <<>>

C11_NoIdFallsThrough ==
  NoIdCall
    => /\ Made({"goto_job"})
       /\ Made({"evaluate_dom"})
       /\ ~Made({"intercept"})
       /\ reply.message # "Could not extract job ID from URL"

(***************************************************************************)
(* C12: each detail strategy is exception-safe.  A fault raised while the  *)
(* observer is installed, while the intercepted payload is parsed, or      *)
(* while the document query runs makes the chain fall through to the next  *)
(* strategy: by itself it never makes getJobDetails return failure.        *)
(***************************************************************************)
StrategyFaults == {"intercept", "parse", "evaluate"}

\* the faults of the call were raised inside strategies, and only there
OnlyStrategyFaults ==
  Completed("details") /\ call.faults # {} /\ call.faults \subseteq StrategyFaults

C12_StrategiesExceptionSafe ==
  OnlyStrategyFaults => (reply.shape = "envelope" /\ reply.success)

(***************************************************************************)
(* C13: if the navigation succeeds and no strategy yields description      *)
(* text, getJobDetails still returns success=true, with an empty           *)
(* description; success=false is returned only for a navigation or timeout *)
(* fault.                                                                  *)
(***************************************************************************)
\* the description text the strategies of the call yielded
YieldedText ==
  IF call.apiResponse.captured /\ call.apiResponse.hasData THEN PayloadDescription
  ELSE IF call.doc # NoDoc THEN DomDescription(call.doc)
  ELSE <<>>

\* stated for the calls whose navigation and settle delay succeeded: past
\* that point no navigation or timeout fault is left to happen
C13_EmptyDescriptionIsSuccess ==
  ChainReached
    => /\ reply.shape = "envelope" /\ reply.success
       /\ YieldedText = <<>> => reply.details.description = <<>>

\* what the code does do: a document without any description text
C13_EmptyFromDocument ==
  /\ ChainReached
  /\ call.doc # NoDoc
  /\ DomDescription(call.doc) = <<>>
  /\ reply.success
  /\ reply.details.description = <<>>

(***************************************************************************)
(* C14: every command (login, searchJobs, getJobDetails, cleanup), for any *)
(* arguments, a missing arguments object included, and for any fault       *)
(* raised inside the operation, replies with an envelope carrying a        *)
(* boolean success field; no reply has another shape.                      *)
(***************************************************************************)
Commands == {"login", "search", "details", "cleanup"}

C14_UniformEnvelope ==
  \A o \in Commands : Completed(o) => reply.shape = "envelope"

C15_WitnessAgain ==
  /\ Completed("cleanup")
  /\ call.before[1] = "null" /\ call.before[3] = "function"
  /\ session = call.before
  /\ reply.success

(***************************************************************************)
(* C16: initialize() is idempotent.  Over any sequence or interleaving of  *)
(* initialize() calls with no cleanup in between, two overlapping login    *)
(* commands included, the browser is launched exactly once and exactly one *)
(* page is created.                                                        *)
(***************************************************************************)
C16_InitializeOnce ==
  ~threads.cleaned
    => /\ threads.launched <= 1
       /\ threads.pages <= 1
       /\ ((\E p \in Procs : threads.op[p] = "login")
           /\ (\A p \in Procs : threads.pc[p] \in {"idle", "returned", "goto"})
           /\ ~threads.faulted)
            => (threads.launched = 1 /\ threads.pages = 1)

\* what does hold: calls that do not overlap launch once
C16_OneAtATime ==
  (threads.made[2] = 0 /\ ~threads.faulted /\ ~threads.cleaned)
    => (threads.launched <= 1 /\ threads.pages <= 1)

(***************************************************************************)
(* C17: after the submit, login() classifies by the URL and by whether an  *)
(* error element is there, in this order: a checkpoint/challenge URL gives *)
(* success=false with needsManualVerification; else a URL of the           *)
(* authenticated area marks the session authenticated, saves the session   *)
(* and gives success=true; else an error element gives success=false with  *)
(* its text; else a URL still on the login form gives success=false; else  *)
(* success=true, unverified, with the current URL.  One branch is taken.   *)
(***************************************************************************)
Has(url, patterns) == url \cap patterns # {}

\* the login got to read the URL after the submit
Classified == Completed("login") /\ call.postUrl # NoUrl

C17_WitnessRejected ==
  /\ Classified
  /\ call.postUrl = {"/login"}
  /\ call.errorEl
  /\ reply.message = "Login failed"

\* none of the patterns: the unverified success
C17_WitnessUnverified ==
  /\ Classified
  /\ call.postUrl = {}
  /\ reply.success
  /\ reply.currentUrl = {}

(***************************************************************************)
(* C18: the cookie file is written only right after a successful           *)
(* authentication transition: saveCookies is called by no command but a    *)
(* login whose URL after the submit is in the authenticated area (and not  *)
(* a checkpoint), which marks the session authenticated and replies        *)
(* success; and the file changes in no other step.                         *)
(***************************************************************************)
AuthenticatedTransition ==
  /\ Classified
  /\ Has(call.postUrl, {"/feed/", "/mynetwork/", "/home"})
  /\ ~Has(call.postUrl, {"checkpoint", "challenge"})
  /\ isLoggedIn
  /\ reply.success

WritesCookieFile == cookieFile' # cookieFile

C18_SavedOnlyOnAuthentication ==
  /\ [](Made({"saveCookies"}) => AuthenticatedTransition)
  /\ [][WritesCookieFile => (At("login", "submitted") /\ AuthenticatedTransition')]_vars

\* a login that authenticated and left the authenticated tokens in the file
C18_Witness ==
  /\ AuthenticatedTransition
  /\ Made({"saveCookies"})
  /\ cookieFile = "auth"
  /\ reply.message = "Login successful"

(***************************************************************************)
(* C19: after a login reported a checkpoint and the user completed the     *)
(* verification by hand, the session is saved: the next login that returns *)
(* success, with no write fault, leaves the cookie file holding the        *)
(* authenticated tokens.                                                   *)
(***************************************************************************)
\* the first login to succeed after a checkpoint was reported and the user
\* resolved it in the browser window; nothing failed to write
SucceededAfterCheckpoint ==
  /\ Completed("login")
  /\ call.afterCheckpoint
  /\ call.resolved
  /\ call.faults = {}
  /\ reply.shape = "envelope" /\ reply.success

C19_SavedAfterCheckpoint ==
  SucceededAfterCheckpoint => cookieFile = "auth"

(***************************************************************************)
(* C20: searchJobs gives the not-logged-in failure only before a           *)
(* successful login: once a login() has returned success=true (restored,   *)
(* verified by the URL, or the unverified success) and cleanup was not     *)
(* called since, a search passes the guard.                                *)
(***************************************************************************)
\* searchJobs ran after a login that returned success=true, no cleanup since
SearchAfterLogin == Completed("search") /\ call.invoked /\ call.loginOk

C20_SearchAfterSuccessfulLogin ==
  SearchAfterLogin
    => ~(reply.shape = "envelope" /\ ~reply.success
         /\ reply.message = "Not logged in. Please log in first.")

(***************************************************************************)
(* C21: when the cookie file is absent, cannot be read, does not parse, or *)
(* its tokens are rejected by page.setCookie, initialize() still completes *)
(* (browser, page and the delay helper are there), no tokens are loaded    *)
(* (the site grants the page what it granted before), and login goes on to *)
(* the session check instead of returning a failure.                       *)
(***************************************************************************)
\* login is about to run initialize() on a session without a browser
ColdInitialize == At("login", "initialize") /\ browser = "null"

\* after the step: nothing but loadCookies faulted, or there was no file
NoSessionLoaded ==
  /\ call'.faults \subseteq LoadFaults
  /\ call'.faults # {} \/ cookieFile = "absent"

C21_PermissiveLoad ==
  [][(ColdInitialize /\ NoSessionLoaded)
       => /\ browser' = "browser" /\ page' = "page"
          /\ randomDelay' = "function"
          /\ siteAuth' = siteAuth
          /\ call'.pc = "probe"
          /\ reply' = reply]_vars

\* a file that does not parse: the login is at the session check
C21_Witness ==
  /\ At("login", "probe")
  /\ cookieFile = "partial"
  /\ call.faults = {"cookieParse"}
  /\ randomDelay = "function"
  /\ ~siteAuth

\* the tokens of an authenticated session, rejected by page.setCookie
C21_WitnessRejected ==
  /\ At("login", "probe")
  /\ cookieFile = "auth"
  /\ call.faults = {"setCookie"}
  /\ ~siteAuth

(***************************************************************************)
(* C22: once the credential form was submitted, login() always gets to the *)
(* classification of the URL: the race of the navigation wait, the feed    *)
(* marker wait and the checkpoint marker wait may resolve, time out or     *)
(* reject, and login does not return the "Login error" failure for it.     *)
(***************************************************************************)
\* login clicked the submit button and has returned
Submitted == Completed("login") /\ Made({"click_submit"})

Mapped == Completed("details") /\ Made({"map_payload"})

TheData == call.apiResponse.data

\* the item of the included collection with this type, as a set
Items(type) ==
  IF call.apiResponse.hasIncluded
  THEN {call.apiResponse.included[i] : i \in
          {j \in 1 .. Len(call.apiResponse.included) :
             call.apiResponse.included[j].type = type}}
  ELSE {}

\* the sentinel where the value is absent, else the value
Sentinel(value, field) == IF value = Undefined THEN field = NA ELSE field = value

C23_FieldsOptional ==
  Mapped
    => /\ reply.shape = "envelope" /\ reply.success
       /\ Sentinel(TheData.title, reply.details.title)
       /\ Sentinel(TheData.formattedLocation, reply.details.location)
       /\ Sentinel(TheData.formattedExperienceLevel, reply.details.experienceLevel)
       /\ TheData.description = Undefined => reply.details.description = <<>>
       /\ TheData.description # Undefined
            => reply.details.description = TheData.description
       /\ (~TheData.workRemoteAllowed
           /\ TheData.formattedEmploymentStatus = Undefined)
            => reply.details.workplaceType = <<NA>>
       /\ reply.details.applicants = TheData.applies
       /\ TheData.listedAt = 0 => reply.details.postedAt = NA
       /\ Items("Company") = {}
            => /\ reply.details.company = NA
               /\ reply.details.companyInfo.size = NA
               /\ reply.details.companyInfo.industry = NA
               /\ reply.details.companyInfo.description = NA
       /\ \A c \in Items("Company") :
            /\ Sentinel(c.name, reply.details.company)
            /\ Sentinel(c.description, reply.details.companyInfo.description)
            /\ ~c.staffCountRange => reply.details.companyInfo.size = NA
            /\ c.industries = <<>> => reply.details.companyInfo.industry = NA
       /\ (\A f \in Items("FollowingInfo") : f.followerCount = 0)
            => reply.details.companyInfo.followers = NA

\* a payload with nothing but an empty data section and no included collection
C23_Witness ==
  /\ Mapped
  /\ TheData = NoData
  /\ ~call.apiResponse.hasIncluded
  /\ reply.success
  /\ reply.details.title = NA
  /\ reply.details.description = <<>>
  /\ reply.details.applicants = 0

\* a Company item without a name and without a description
C23_WitnessCompany ==
  /\ Mapped
  /\ \E c \in Items("Company") : c.name = Undefined /\ c.description = Undefined
  /\ reply.details.company = NA
  /\ reply.details.title = Title

(***************************************************************************)
(* C24: the write of the cookie file is atomic: whatever happens during a  *)
(* save, a fault or an interruption included, a step that changes the file *)
(* leaves in it a complete token set (the new one); otherwise the file     *)
(* holds what it held before.  It never holds a partial token set after a  *)
(* save.                                                                   *)
(***************************************************************************)
CompleteTokenSets == {"anon", "auth"}

C24_AtomicSave ==
  [][WritesCookieFile => cookieFile' \in CompleteTokenSets]_vars

\* a save was cut short and left a partial token set where a complete one was
C24_PartialAfterSave ==
  /\ Completed("login")
  /\ Made({"saveCookies"})
  /\ "save" \in call.faults
  /\ cookieFile = "partial"

(***************************************************************************)
(* C25: getJobDetails runs only against an authenticated session.  Called  *)
(* on a session that is not logged in, be it uninitialized (no browser, no *)
(* page) or initialized (browser, page and delay helper there), it returns *)
(* a failure envelope and does not navigate.                               *)
(***************************************************************************)
\* the session as the call found it: never built or released, or fully built
FoundUninitialized == call.before[1] = "null" /\ call.before[2] = "null"

FoundInitialized ==
  call.before[1] # "null" /\ call.before[2] # "null" /\ call.before[3] = "function"

\* getJobDetails ran on a session that was not logged in
DetailsWithoutLogin ==
  /\ Completed("details")
  /\ call.invoked
  /\ ~call.before[4]
  /\ FoundUninitialized \/ FoundInitialized

C25_DetailsRequireLogin ==
  DetailsWithoutLogin
    => /\ reply.shape = "envelope" /\ ~reply.success
       /\ ~Made({"goto_job"})

\* on an initialized session that is not logged in, the record is returned
C25_DetailsWithoutLoginSucceed ==
  /\ DetailsWithoutLogin
  /\ FoundInitialized
  /\ ~call.loginOk
  /\ Made({"goto_job"})
  /\ reply.success

(***************************************************************************)
(* C26: login(), searchJobs() and getJobDetails() never reject.  Whatever  *)
(* step faults (the launch, the page creation or the header setup in       *)
(* initialize(), a navigation, a wait for a selector, typing, the missing  *)
(* submit button, a page evaluation, the interception switch, the use of a *)
(* null page or of a missing delay helper), the operation returns, and     *)
(* what it returns is {success: false, message} from its catch.            *)
(***************************************************************************)
Operations == {"login", "search", "details"}

\* the faults that reach an operation's catch
Fatal ==
  {"launch", "newPage", "headers", "TypeError", "navigation", "noForm",
   "typing", "noButton", "intercept", "unintercept", "evaluate"}

CatchMessages ==
  {"Login error", "Job search error", "Error getting job details",
   "DOM extraction failed"}

C26_NeverRejects ==
  \A o \in Operations :
    (Completed(o) /\ call.invoked)
      => /\ reply.shape = "envelope"
         /\ call.faults \cap Fatal # {}
              => (~reply.success /\ reply.message \in CatchMessages)

\* login on a session that has a browser but no page: the TypeError is caught
C26_Witness ==
  /\ Completed("login")
  /\ call.invoked
  /\ call.before[1] # "null" /\ call.before[2] = "null"
  /\ "TypeError" \in call.faults
  /\ reply = LoginError

\* a page evaluation that rejects in searchJobs
C26_WitnessSearch ==
  /\ Completed("search")
  /\ call.faults = {"evaluate"}
  /\ reply = SearchError

(***************************************************************************)
(* C27: the operations on the one page are serialized.  At any time at     *)
(* most one of login, searchJobs and getJobDetails is in progress, and at  *)
(* most one navigation of the page is pending: a command that arrives      *)
(* while another is suspended does not navigate before that one returned.  *)
(***************************************************************************)
\* the requests whose login, search or details has started and not returned
InProgress ==
  {p \in Procs : threads.pc[p] # "idle" /\ threads.op[p] \in Operations}

\* the requests suspended at a page.goto
Navigating == {p \in Procs : threads.pc[p] = "goto"}

C27_Serialized ==
  /\ Cardinality(InProgress) <= 1
  /\ Cardinality(Navigating) <= 1

\* a search and a details call both suspended at their navigation
C27_TwoNavigations ==
  \E p, q \in Navigating :
    threads.op[p] = "search" /\ threads.op[q] = "details"

(***************************************************************************)
(* C28: cleanup() called while another operation is suspended mid-flight   *)
(* does not throw, the operation in flight still returns, and once both    *)
(* have returned the session is uninitialized: browser = null and          *)
(* isLoggedIn = false.                                                     *)
(***************************************************************************)
\* the requests that made a command
Ran == {p \in Procs : threads.made[p] > 0}

\* one cleanup was called while one operation was in flight, nothing else
\* was called, nothing faulted, and both have returned
CleanupDuringOperation ==
  /\ threads.during
  /\ ~threads.faulted
  /\ Cardinality(Ran) = 2
  /\ \A p \in Ran : threads.made[p] = 1
  /\ \E p \in Ran : threads.op[p] = "cleanup"
  /\ \E p \in Ran : threads.op[p] \in Operations
  /\ \A p \in Procs : threads.pc[p] = "idle"

C28_CleanupMidFlight ==
  CleanupDuringOperation => (browser = "null" /\ ~isLoggedIn)

\* what does hold: a cleanup during a search or a details call releases all
C28_CleanupDuringNavigation ==
  (CleanupDuringOperation /\ \E p \in Ran : threads.op[p] \in {"search", "details"})
    => (browser = "null" /\ page = "null" /\ ~isLoggedIn)

(***************************************************************************)
(* C29: within one login() the credential form is submitted at most once,  *)
(* and only after the login page was opened and the identifier and then    *)
(* the secret were typed.  After the submit nothing is navigated, typed or *)
(* submitted again, whatever the classification, checkpoint included:      *)
(* login returns without a retry.                                          *)
(***************************************************************************)
\* the positions of c in the calls of the login in flight or just returned
Positions(c) == {i \in 1 .. Len(call.calls) : call.calls[i] = c}

FormSteps == {"goto_feed", "goto_login", "type_username", "type_password",
              "click_submit"}

C29_SubmitOnce ==
  call.op = "login"
    => /\ Cardinality(Positions("click_submit")) <= 1
       /\ \A i \in Positions("click_submit") :
            /\ \E g \in Positions("goto_login"), u \in Positions("type_username"),
                  w \in Positions("type_password") : g < u /\ u < w /\ w < i
            /\ \A j \in (i + 1) .. Len(call.calls) : call.calls[j] \notin FormSteps
       /\ Classified => Cardinality(Positions("goto_login")) = 1

\* a checkpoint after the one submit: login has returned, nothing came after
C29_Witness ==
  /\ Classified
  /\ reply.needsManualVerification
  /\ call.calls = <<"launch", "goto_feed", "goto_login", "type_username",
                    "type_password", "click_submit">>

(***************************************************************************)
(* C30: a response is taken as the payload only if it is the job-posting   *)
(* API response of exactly the requested posting.  The response of another *)
(* posting, such as one whose id contains the requested id, is never       *)
(* stored and never used to build the record.                              *)
(***************************************************************************)
\* the observer of the details call stored a response
Stored == call.op = "details" /\ call.apiResponse.captured

C30_ExactListing ==
  Stored => call.capturedId = call.jobId

\* the payload of posting <<1, 2, 3>> became the record asked for <<1, 2>>
C30_ForeignRecord ==
  /\ Mapped
  /\ call.jobId = <<1, 2>>
  /\ call.capturedId = <<1, 2, 3>>
  /\ reply.success

(***************************************************************************)
(* C31: the sweep over the expandable blocks.  It is entered only when the *)
(* text of the anchored block is empty or shorter than 100 characters; it  *)
(* then makes the description the longest block text that is longer than   *)
(* 100 characters, the first in document order among equals; a text of     *)
(* exactly 100 characters is not taken, and when no block qualifies the    *)
(* description stays what the anchored block gave.  Stated on the pages    *)
(* where the last-resort scan has nothing to add: no article, or a         *)
(* description that is long enough after the sweep.                        *)
(***************************************************************************)
\* the texts of the expandable blocks of the page, in document order
Blocks(doc) ==
  IF doc.jobsDescription THEN [i \in DOMAIN doc.mt4s |-> Trim(doc.mt4s[i])]
  ELSE <<>>

\* where the first of the longest texts longer than min stands, if any does
FirstLongest(texts, min) ==
  {i \in DOMAIN texts :
     /\ Length(texts[i]) > min
     /\ \A j \in DOMAIN texts : Length(texts[j]) <= Length(texts[i])
     /\ \A j \in 1 .. (i - 1) : Length(texts[j]) < Length(texts[i])}

Short(t) == Length(t) < 100

\* the description once the sweep is over
Swept(doc) ==
  LET chosen == FirstLongest(Blocks(doc), 100)
  IN  IF Short(AnchoredText(doc)) /\ chosen # {}
      THEN Blocks(doc)[CHOOSE i \in chosen : TRUE]
      ELSE AnchoredText(doc)

C31_Sweep ==
  (FromTheDocument /\ (~call.doc.article \/ ~Short(Swept(call.doc))))
    => /\ TruncationLaw(Swept(call.doc), reply.details.description, 5000)
       /\ \A i \in DOMAIN Blocks(call.doc) :
            Length(Blocks(call.doc)[i]) <= 100
              => (reply.details.description = Blocks(call.doc)[i]
                    => AnchoredText(call.doc) = Blocks(call.doc)[i])

\* two blocks of the same length, the longest of the page: the first is taken
C31_Witness ==
  /\ FromTheDocument
  /\ Short(AnchoredText(call.doc))
  /\ \E i, j \in DOMAIN Blocks(call.doc) :
       /\ i < j
       /\ Blocks(call.doc)[i] # Blocks(call.doc)[j]
       /\ Length(Blocks(call.doc)[i]) = Length(Blocks(call.doc)[j])
       /\ FirstLongest(Blocks(call.doc), 100) = {i}
       /\ i > 1
       /\ reply.details.description = Blocks(call.doc)[i]

\* a single block of exactly 100 characters: the anchored text is kept
C31_WitnessBoundary ==
  /\ FromTheDocument
  /\ ~call.doc.article
  /\ Length(AnchoredText(call.doc)) = 1
  /\ Len(Blocks(call.doc)) = 1
  /\ Length(Blocks(call.doc)[1]) = 100
  /\ reply.details.description = AnchoredText(call.doc)

\* an anchored text of exactly 100 characters: the sweep is not entered
C31_WitnessNotEntered ==
  /\ FromTheDocument
  /\ Length(AnchoredText(call.doc)) = 100
  /\ FirstLongest(Blocks(call.doc), 100) # {}
  /\ reply.details.description = AnchoredText(call.doc)

(***************************************************************************)
(* C32: the last-resort scan.  It runs only if the description is still    *)
(* empty or shorter than 100 characters after the sweep; it then takes the *)
(* longest candidate text longer than 500 characters, a candidate being    *)
(* the text of a div of the article that holds none of the interface       *)
(* labels; a candidate of 500 characters or fewer is never taken.          *)
(***************************************************************************)
\* the candidate texts of the article, in document order; an empty text
\* stands where a div holds an interface label
Candidates(doc) ==
  IF doc.article
  THEN [i \in DOMAIN doc.divs |->
          IF doc.divs[i].ui THEN <<>> ELSE Trim(doc.divs[i].text)]
  ELSE <<>>

\* the description once the scan is over
Scanned(doc) ==
  LET chosen == FirstLongest(Candidates(doc), 500)
  IN  IF Short(Swept(doc)) /\ chosen # {}
      THEN Candidates(doc)[CHOOSE i \in chosen : TRUE]
      ELSE Swept(doc)

C32_LastResort ==
  FromTheDocument
    => /\ TruncationLaw(Scanned(call.doc), reply.details.description, 5000)
       /\ ~Short(Swept(call.doc))
            => TruncationLaw(Swept(call.doc), reply.details.description, 5000)
       /\ \A i \in DOMAIN Candidates(call.doc) :
            (Candidates(call.doc)[i] # <<>>
               /\ Length(Candidates(call.doc)[i]) <= 500)
              => (reply.details.description = Candidates(call.doc)[i]
                    => Swept(call.doc) = Candidates(call.doc)[i])

\* the scan takes the longest of several candidates, not the first or last
C32_Witness ==
  /\ FromTheDocument
  /\ Short(Swept(call.doc))
  /\ \E i \in DOMAIN Candidates(call.doc) :
       /\ 1 < i /\ i < Len(Candidates(call.doc))
       /\ Length(Candidates(call.doc)[i]) > 500
       /\ Length(Candidates(call.doc)[1]) > 100
       /\ Length(Candidates(call.doc)[Len(Candidates(call.doc))]) > 500
       /\ reply.details.description = Candidates(call.doc)[i]

\* a single candidate of exactly 500 characters: the description stays short
C32_WitnessBoundary ==
  /\ FromTheDocument
  /\ Short(Swept(call.doc))
  /\ Len(Candidates(call.doc)) = 1
  /\ Length(Candidates(call.doc)[1]) = 500
  /\ reply.details.description = Swept(call.doc)

\* the sweep found a text: the scan does not run, whatever the article holds
C32_WitnessNotEntered ==
  /\ FromTheDocument
  /\ Short(AnchoredText(call.doc))
  /\ ~Short(Swept(call.doc))
  /\ FirstLongest(Candidates(call.doc), 500) # {}
  /\ reply.details.description = Swept(call.doc)

(***************************************************************************)
(* C33: the jobs searchJobs returns are the first min(25, n) qualifying    *)
(* listings, in the order in which their elements stand in the document:   *)
(* the k-th job returned is the listing of the k-th element that has both  *)
(* a title and a link; none is reordered, repeated or left out before      *)
(* position 25.                                                            *)
(***************************************************************************)
\* the position in the document of the k-th qualifying element
Nth(doc, k) ==
  CHOOSE i \in Qualifying(doc) :
    Cardinality({j \in Qualifying(doc) : j <= i}) = k

C33_DocumentOrder ==
  SearchSucceeded
    => /\ DOMAIN reply.jobs = 1 .. Min(25, Cardinality(Qualifying(call.doc)))
       /\ \A k \in DOMAIN reply.jobs :
            reply.jobs[k] = Listing(call.doc.cards[Nth(call.doc, k)])
       /\ \A k, l \in DOMAIN reply.jobs :
            k < l => reply.jobs[k].jobId < reply.jobs[l].jobId

\* more than 25 qualifying elements after one that does not qualify: the
\* jobs are those of elements 2 to 26
C33_Witness ==
  /\ SearchSucceeded
  /\ Cardinality(Qualifying(call.doc)) > 25
  /\ 1 \notin Qualifying(call.doc)
  /\ Len(reply.jobs) = 25
  /\ reply.jobs[1].jobId = 2
  /\ reply.jobs[25].jobId = 26

(***************************************************************************)
(* C34: searchJobs goes on to the extraction if the primary result marker  *)
(* appears, or if it does not but the legacy marker does; if neither       *)
(* appears it returns success=false with a message and no jobs.            *)
(***************************************************************************)
\* the search navigated and waited for the markers on this page
Waited == Completed("search") /\ call.doc # NoDoc

Primary(doc) == \E i \in DOMAIN doc.cards : TRUE

Legacy(doc) == doc.legacy

C34_Markers ==
  Waited
    => /\ (Primary(call.doc) \/ (~Primary(call.doc) /\ Legacy(call.doc)))
            => /\ reply.shape = "envelope" /\ reply.success
               /\ reply.totalFound = Cardinality(Qualifying(call.doc))
       /\ (~Primary(call.doc) /\ ~Legacy(call.doc))
            => /\ reply.shape = "envelope" /\ ~reply.success
               /\ reply.message # ""
               /\ reply.jobs = <<>>

\* the legacy marker alone: the extraction runs and finds nothing
C34_Witness ==
  /\ Waited
  /\ ~Primary(call.doc) /\ Legacy(call.doc)
  /\ reply.success
  /\ reply.jobs = <<>>

\* neither marker
C34_WitnessNeither ==
  /\ Waited
  /\ ~Primary(call.doc) /\ ~Legacy(call.doc)
  /\ ~reply.success
  /\ reply.message = "Job search error"

(***************************************************************************)
(* C35: every invoked login, searchJobs and getJobDetails eventually       *)
(* returns a result: no operation waits forever at a navigation, a         *)
(* selector wait, the race after the submit, the observation window or an  *)
(* injected delay.                                                         *)
(***************************************************************************)
\* operation o was invoked and has not returned
Pending(o) == call.op = o /\ call.invoked /\ ~Idle

C35_EventuallyReturns ==
  \A o \in {"login", "search", "details"} : Pending(o) ~> Completed(o)

\* a getJobDetails call that went through the navigation and the settle
\* delay, waited for the description and returned
C35_Witness ==
  /\ Completed("details")
  /\ Made({"settle"}) /\ Made({"evaluate_dom"})
  /\ reply.success



(***************************************************************************)
(* C36: randomDelay(min, max) with min <= max resolves exactly once, after *)
(* the drawn duration d with min <= d <= max; a parameter left out is 1000 *)
(* for min and 3000 for max; the session is neither read nor written (the  *)
(* draw depends on the arguments and Math.random() only, and the session   *)
(* is what it was at the call).                                            *)
(***************************************************************************)
C36_DelayState ==
  LET t == threads.timer IN
  /\ t.resolved <= 1
  /\ t.state = "resolved" => t.resolved = 1 /\ t.elapsed >= t.d
  /\ t.state = "pending" => t.resolved = 0
  /\ t.state # "none" =>
       /\ t.min = Default(t.args[1], 1000)
       /\ t.max = Default(t.args[2], 3000)
       /\ t.min <= t.max => t.min <= t.d /\ t.d <= t.max
       /\ session = t.before

C36_RandomDelay ==
  /\ []C36_DelayState
  /\ (threads.timer.state = "pending") ~> (threads.timer.state = "resolved")

\* a call with both parameters left out has resolved, strictly inside
C36_Witness ==
  LET t == threads.timer IN
  /\ t.state = "resolved"
  /\ t.args = <<Omitted, Omitted>>
  /\ 1000 < t.d /\ t.d < 3000
  /\ t.elapsed >= t.d

\* a call with min = max has resolved after exactly that long
C36_WitnessEqual ==
  LET t == threads.timer IN
  /\ t.state = "resolved"
  /\ t.args = <<<<2000>>, <<2000>>>>
  /\ t.d = 2000


(***************************************************************************)
(* C37: after a login() that returned success = false the session is not   *)
(* authenticated, and a searchJobs that follows it returns the             *)
(* not-authenticated result, also when an earlier login of the same        *)
(* session had succeeded.                                                  *)
(***************************************************************************)
\* the last command was a login() that returned a failure
LoginFailed ==
  /\ Completed("login")
  /\ call.invoked
  /\ reply.shape = "envelope"
  /\ ~reply.success

C37_FailedLoginUnauthenticated ==
  /\ [](LoginFailed => ~isLoggedIn)
  /\ [][(LoginFailed /\ call'.op = "search" /\ call'.invoked)
          => reply' = NotLoggedIn]_vars

\* where the claim holds: the failed login was the first of the session
\* and the search after it fails fast
C37_FirstLoginFailedThenSearch ==
  /\ Completed("search")
  /\ reply = NotLoggedIn
  /\ ~call.loginOk
  /\ call.before[1] = "browser" /\ call.before[2] = "page"

\* the failing case without any fault: a login that met a checkpoint on a
\* session that an earlier login had authenticated
C37_CheckpointAfterSuccess ==
  /\ LoginFailed
  /\ reply.needsManualVerification
  /\ call.faults = {}
  /\ isLoggedIn


(***************************************************************************)
(* C39: whenever no initialize() is in progress, a browser that is not     *)
(* null comes with a page that is not null and with a defined randomDelay, *)
(* also after an initialize() that threw part-way; a later login then      *)
(* works or initializes again and does not run on a half-built session.    *)
(* (initialize() runs to its end within LoginInitialize, so none is in     *)
(* progress in any state of Spec.)                                         *)
(***************************************************************************)
C39_SessionWhole ==
  browser # "null" => page # "null" /\ randomDelay # "undefined"

\* initialize() threw at page creation: a browser without a page
C39_BrowserWithoutPage ==
  /\ Completed("login")
  /\ call.faults = {"newPage"}
  /\ browser # "null" /\ page = "null" /\ randomDelay = "undefined"

\* a later login found the half-built session, did not initialize again
\* (no launch among its calls) and ran on it to its end
C39_LoginOnHalfBuilt ==
  /\ Completed("login")
  /\ call.before[1] # "null"
  /\ call.before[2] = "null" \/ call.before[3] = "undefined"
  /\ ~Made({"launch"})
  /\ session = call.before

\* where the claim holds: an initialize() that ran to its end
C39_Initialized ==
  /\ Completed("login")
  /\ Made({"launch"})
  /\ call.faults = {}
  /\ browser # "null" /\ page # "null" /\ randomDelay # "undefined"


(***************************************************************************)
(* C38: when getJobDetails returns, with success or with failure (a        *)
(* navigation timeout included), the request and response observers it     *)
(* installed are removed and request interception is disabled again;       *)
(* observers never accumulate over repeated calls.  Stated over the states *)
(* in which no getJobDetails stands between its page.on and its return,    *)
(* for requests made one at a time (only the first request slot is used)   *)
(* on a session whose initialize() and cleanup() met no fault.             *)
(***************************************************************************)
\* a getJobDetails has installed its observers and has not returned
Observing == \E p \in Procs : threads.op[p] = "details" /\ threads.pc[p] = "goto"

C38_ObserversRemoved ==
  (threads.made[2] = 0 /\ ~threads.faulted /\ ~Observing)
    => threads.observers = 0 /\ ~threads.intercepting

\* one request alone, nothing else in flight: a getJobDetails returned
\* and left its observers and the interception on the page
C38_LeftBehind ==
  /\ \A p \in Procs : threads.pc[p] = "idle"
  /\ threads.made[2] = 0
  /\ threads.op[1] = "details"
  /\ threads.launched = 1 /\ threads.pages = 1
  /\ ~threads.faulted
  /\ randomDelay # "undefined"
  /\ threads.observers = 1 /\ threads.intercepting

\* two calls later two pairs of observers are on the page
C38_Accumulated ==
  /\ \A p \in Procs : threads.pc[p] = "idle"
  /\ threads.pages = 1
  /\ threads.observers >= 2

\* where the claim holds: the navigation resolved and the observers came off
C38_Removed ==
  /\ \A p \in Procs : threads.pc[p] = "idle"
  /\ threads.made[2] = 0
  /\ threads.op[1] = "details"
  /\ threads.watch[1] = threads.pageNo /\ threads.pageNo # 0
  /\ threads.observers = 0 /\ ~threads.intercepting


(***************************************************************************)
(* C40: in every reachable state, under any sequence or interleaving of    *)
(* login, searchJobs, getJobDetails and cleanup, isLoggedIn = true implies *)
(* that the browser and the page handle are not null.  Stated over the     *)
(* states that no rejected browser call led to.                            *)
(***************************************************************************)
C40_LoggedInHasBrowser ==
  (isLoggedIn /\ ~threads.faulted) => browser # "null" /\ page # "null"

\* the same for commands that do not overlap, in the sequential
\* specification, faults included
C40_OneAtATime ==
  isLoggedIn => browser # "null" /\ page # "null"

\* an authenticated session with its browser, after a login
C40_LoggedIn ==
  /\ Completed("login")
  /\ isLoggedIn /\ browser # "null" /\ page # "null"

\* two overlapping logins launched two browsers; a cleanup closed the one
\* this.browser referred to; the other login went on with the page of its
\* own browser and recorded the session as authenticated
C40_LoggedInWithoutBrowser ==
  /\ isLoggedIn
  /\ browser = "null" /\ page # "null"
  /\ threads.launched = 2
  /\ threads.pageOn \notin threads.closed
  /\ ~threads.faulted

=============================================================================
